---- MODULE Spec2Model ----
(***************************************************************************)
(* Model of the signal scoring engine (src/src/screening/signal_engine.py) *)
(* and of the regime and breadth analyzer (src/src/screening/benchmark.py).*)
(*                                                                         *)
(* Specifications:                                                         *)
(*   Spec            one evaluation of one function, as one action         *)
(*   SpecSteps       one evaluation, one action per section of the function*)
(*   SpecConcurrent  MaxThreads step-wise evaluations, interleaved         *)
(*   SpecScan        a scan run (main of src/run_optimized_scan.py)        *)
(*   SpecBroker      method calls on one RobinhoodPositionFetcher          *)
(*                   (src/src/data/robinhood_positions.py)                 *)
(*                                                                         *)
(* Representation of Python values:                                        *)
(*   dict            a record; a key the dict lacks is a field the record  *)
(*                   lacks (Get models dict.get), {} is EmptyDict          *)
(*   Optional[x]     None is the empty set, a value v is {v}               *)
(*   float           fixed point, the unit is named where the value is     *)
(*                   read: prices in 1/1000, MA slopes in 1/1000,          *)
(*                   distances in percent, RS slope in 1/10000, volume     *)
(*                   ratio in 1/1000, breadth percentages and final scores *)
(*                   in 1/10                                               *)
(*   DataFrame       the features the scorers read from it: its columns,   *)
(*                   its number of rows, the tail of Close and Volume, and *)
(*                   what the technical feature functions return for it    *)
(*   raise           an outcome [kind |-> "raise", exc |-> ...]            *)
(***************************************************************************)
EXTENDS Integers, Sequences, FiniteSets, TLC

VARIABLES
    op,     \* the function being evaluated
    args,   \* its arguments
    pc,     \* "call" before the evaluation, "done" after it
    out,    \* the outcome: nothing yet, a returned value, or a raised exception
    threads, \* concurrent evaluations: for each its function, arguments, position,
             \* locals and outcome
    heap,    \* the list and dict objects the concurrent evaluations created
    run,     \* a scan run (main of run_optimized_scan.py): its position and locals
    fetcher, \* a RobinhoodPositionFetcher: its username and its logged_in flag
    broker   \* the method calls made on the fetcher, and the last one in full

vars == <<op, args, pc, out, threads, heap, run, fetcher, broker>>

---------------------------------------------------------------------------
(* Python helpers *)

EmptyDict == [k \in {} |-> 0]

None == {}

Some(v) == {v}

Get(d, k, default) == IF k \in DOMAIN d THEN d[k] ELSE default

\* d.get(k) where the result is kept as an Optional
GetOpt(d, k) == IF k \in DOMAIN d THEN {d[k]} ELSE {}

Min(a, b) == IF a <= b THEN a ELSE b

Max(a, b) == IF a >= b THEN a ELSE b

Return(value, calls) == [kind |-> "return", value |-> value, calls |-> calls]

Raise(exc) == [kind |-> "raise", exc |-> exc]

NoOutcome == [kind |-> "none"]

\* round(final_score, 1): the score in tenths of a point. Every sub-score is a
\* whole number of points, so the conversion is exact.
Round1Score(final_score) == final_score * 10

---------------------------------------------------------------------------
(* Technical feature functions (phase_indicators, an external collaborator): *)
(* each is a pure function of the series it is given; the frame and the RS   *)
(* series carry the value the function returns for them.                     *)

detect_breakout(price_data, current_price, phase_info) == price_data.breakout

calculate_volume_ratio(price_data, window) == price_data.volume_ratio

calculate_rs_slope(rs_series, window) ==
    IF window = 20 THEN rs_series.slope_20 ELSE rs_series.slope_15

---------------------------------------------------------------------------
(* score_buy_signal *)

\* mutant: phase 3 is scored as well
BuyEligibleAlso3(phase) == phase \in {1, 2, 3}

BuyEligible(phase) == phase \in {1, 2}

InertBuy(ticker, phase) ==
    [ticker  |-> ticker,
     is_buy  |-> FALSE,
     score   |-> 0,
     reason  |-> [text |-> "Wrong phase", phase |-> phase],
     details |-> EmptyDict]

\* A) phase 2: distance above the averages (percent)
Stage2Distance(distance_50, distance_200) ==
    IF distance_50 >= 5 /\ distance_200 >= 10
    THEN [pts |-> 15, reasons |-> <<"Strong Stage 2: well above SMAs">>]
    ELSE IF distance_50 >= 2 /\ distance_200 >= 5
    THEN [pts |-> 12, reasons |-> <<"Good Stage 2: above SMAs">>]
    ELSE IF distance_50 >= 0 /\ distance_200 >= 0
    THEN [pts |-> 8, reasons |-> <<"Weak Stage 2: barely above SMAs">>]
    ELSE [pts |-> 3, reasons |-> <<"Very weak Stage 2">>]

\* A) phase 2: slopes of the averages (1/1000)
Stage2Slopes(slope_50, slope_200) ==
    IF slope_50 > 50 /\ slope_200 > 30
    THEN [pts |-> 15, reasons |-> <<"SMAs rising strongly">>]
    ELSE IF slope_50 > 20 /\ slope_200 > 10
    THEN [pts |-> 10, reasons |-> <<"SMAs rising moderately">>]
    ELSE IF slope_50 > 0 /\ slope_200 > 0
    THEN [pts |-> 5, reasons |-> <<"SMAs rising weakly">>]
    ELSE [pts |-> 0, reasons |-> <<"Warning: SMAs not rising">>]

\* A) phase 1: proximity to the 50-average (percent)
Stage1Proximity(distance_50) ==
    IF distance_50 >= -2 /\ distance_50 < 5
    THEN [pts |-> 12, reasons |-> <<"Near 50 SMA">>]
    ELSE IF distance_50 >= -5
    THEN [pts |-> 8, reasons |-> <<"Approaching 50 SMA">>]
    ELSE [pts |-> 3, reasons |-> <<"Far from 50 SMA">>]

\* A) phase 1: golden-cross setup; sma_200 * 0.98 compared in hundredths
Stage1GoldenCross(sma_50, sma_200, slope_50) ==
    IF sma_50 > sma_200 /\ slope_50 > 0
    THEN [pts |-> 13, reasons |-> <<"50 SMA > 200 SMA (golden cross)">>]
    ELSE IF sma_50 * 100 > sma_200 * 98
    THEN [pts |-> 8, reasons |-> <<"Approaching golden cross">>]
    ELSE [pts |-> 3, reasons |-> <<>>]

StageQuality(phase, phase_info) ==
    LET sma_50       == Get(phase_info, "sma_50", 0)
        sma_200      == Get(phase_info, "sma_200", 0)
        slope_50     == Get(phase_info, "slope_50", 0)
        slope_200    == Get(phase_info, "slope_200", 0)
        distance_50  == Get(phase_info, "distance_from_50sma", 0)
        distance_200 == Get(phase_info, "distance_from_200sma", 0)
    IN  IF phase = 2
        THEN LET a == Stage2Distance(distance_50, distance_200)
                 b == Stage2Slopes(slope_50, slope_200)
             IN  [pts |-> a.pts + b.pts, reasons |-> a.reasons \o b.reasons]
        ELSE IF phase = 1
        THEN LET a == Stage1Proximity(distance_50)
                 b == Stage1GoldenCross(sma_50, sma_200, slope_50)
             IN  [pts |-> a.pts + b.pts, reasons |-> a.reasons \o b.reasons]
        ELSE [pts |-> 0, reasons |-> <<>>]

\* mutant: a breakout is worth 20
BreakoutBonusDouble(breakout_info) ==
    IF breakout_info.is_breakout
    THEN [pts |-> 20, reasons |-> <<"Breakout">>]
    ELSE [pts |-> 0, reasons |-> <<>>]

\* B) +10 when the breakout detector reports a breakout
BreakoutBonus(breakout_info) ==
    IF breakout_info.is_breakout
    THEN [pts |-> 10, reasons |-> <<"Breakout">>]
    ELSE [pts |-> 0, reasons |-> <<>>]

\* C) over-extension penalty
OverExtension(distance_50) ==
    IF distance_50 > 30
    THEN [pts |-> -10, reasons |-> <<"Over-extended above 50 SMA">>]
    ELSE IF distance_50 > 20
    THEN [pts |-> -5, reasons |-> <<"Moderately extended above 50 SMA">>]
    ELSE [pts |-> 0, reasons |-> <<>>]

\* min(trend_score, 50): what is added to the score and stored in details
TrendCap(trend_score) == Min(trend_score, 50)

BuyTrend(phase, phase_info, breakout_info) ==
    LET a == StageQuality(phase, phase_info)
        b == BreakoutBonus(breakout_info)
        c == OverExtension(Get(phase_info, "distance_from_50sma", 0))
    IN  [raw     |-> a.pts + b.pts + c.pts,
         pts     |-> TrendCap(a.pts + b.pts + c.pts),
         reasons |-> a.reasons \o b.reasons \o c.reasons]

---------------------------------------------------------------------------
(* 2. fundamentals *)

\* "if fundamentals:" is false for None and for an empty mapping
Truthy(fundamentals) == \E f \in fundamentals : DOMAIN f # {}

GrowthTrend(revenue_trend, eps_trend) ==
    IF revenue_trend = "accelerating" /\ eps_trend = "accelerating"
    THEN [pts |-> 15, reasons |-> <<"Revenue & EPS accelerating">>]
    ELSE IF revenue_trend = "accelerating" \/ eps_trend = "accelerating"
    THEN [pts |-> 12, reasons |-> <<"Revenue or EPS accelerating">>]
    ELSE IF revenue_trend = "growing" /\ eps_trend = "growing"
    THEN [pts |-> 10, reasons |-> <<"Revenue & EPS growing">>]
    ELSE IF revenue_trend = "growing" \/ eps_trend = "growing"
    THEN [pts |-> 7, reasons |-> <<"Some growth present">>]
    ELSE IF revenue_trend = "flat" /\ eps_trend = "flat"
    THEN [pts |-> 3, reasons |-> <<"Growth stalled">>]
    ELSE [pts |-> 0, reasons |-> <<"Revenue or EPS deteriorating">>]

\* mutant: an 'unknown' inventory signal earns nothing
InventorySignalUnknownZero(inventory_signal) ==
    IF inventory_signal = "neutral"
    THEN [pts |-> 10, reasons |-> <<"Inventory: neutral">>]
    ELSE IF inventory_signal = "caution"
    THEN [pts |-> 5, reasons |-> <<"Inventory building moderately">>]
    ELSE [pts |-> 0, reasons |-> <<"Inventory building rapidly (demand concern)">>]

InventorySignal(inventory_signal) ==
    IF inventory_signal = "neutral" \/ inventory_signal = "unknown"
    THEN [pts |-> 10, reasons |-> <<"Inventory: neutral">>]
    ELSE IF inventory_signal = "caution"
    THEN [pts |-> 5, reasons |-> <<"Inventory building moderately">>]
    ELSE [pts |-> 0, reasons |-> <<"Inventory building rapidly (demand concern)">>]

\* the margin bonus is a placeholder: 5 points whenever fundamentals are present
MarginPlaceholder == 5

BuyFundamentals(fundamentals) ==
    IF Truthy(fundamentals)
    THEN LET f == CHOOSE d \in fundamentals : TRUE
             a == GrowthTrend(Get(f, "revenue_trend", "unknown"),
                              Get(f, "eps_trend", "unknown"))
             b == InventorySignal(Get(f, "inventory_signal", "neutral"))
         IN  [pts |-> a.pts + b.pts + MarginPlaceholder,
              reasons |-> a.reasons \o b.reasons]
    ELSE [pts |-> 15, reasons |-> <<"No fundamental data available">>]

---------------------------------------------------------------------------
(* 3. buy volume behaviour *)

RECURSIVE SumOver(_, _)
SumOver(f, S) ==
    IF S = {} THEN 0
    ELSE LET i == CHOOSE j \in S : TRUE IN f[i] + SumOver(f, S \ {i})

\* round(x, n) of the fixed-point value num/den to a whole unit, ties to even
RoundHalfEven(num, den) ==
    LET q == num \div den
        r == num % den
    IN  IF 2 * r < den THEN q
        ELSE IF 2 * r > den THEN q + 1
        ELSE IF q % 2 = 0 THEN q ELSE q + 1

\* a / b > c / d for positive denominators
RatGt(a, b, c, d) == a * d > c * b

\* mutant: the 1.3 factor is missing from the first rung
BuyVolumeLadderNoFactor(vol_up, up_days, vol_down, down_days) ==
    LET un == IF up_days > 0 THEN vol_up ELSE 0
        ud == IF up_days > 0 THEN up_days ELSE 1
        dn == IF down_days > 0 THEN vol_down ELSE 0
        dd == IF down_days > 0 THEN down_days ELSE 1
    IN  IF RatGt(un, ud, dn, dd)
        THEN [pts |-> 10, reasons |-> <<"Volume heavier on up days">>]
        ELSE IF RatGt(10 * dn, dd, 13 * un, ud)
        THEN [pts |-> 0, reasons |-> <<"Volume heavier on down days (distribution)">>]
        ELSE [pts |-> 4, reasons |-> <<"Volume pattern neutral">>]

BuyVolumeLadder(vol_up, up_days, vol_down, down_days) ==
    LET un == IF up_days > 0 THEN vol_up ELSE 0
        ud == IF up_days > 0 THEN up_days ELSE 1
        dn == IF down_days > 0 THEN vol_down ELSE 0
        dd == IF down_days > 0 THEN down_days ELSE 1
    IN  IF RatGt(10 * un, ud, 13 * dn, dd)
        THEN [pts |-> 10, reasons |-> <<"Volume heavier on up days">>]
        ELSE IF RatGt(un, ud, dn, dd)
        THEN [pts |-> 7, reasons |-> <<"Volume slightly heavier on up days">>]
        ELSE IF RatGt(10 * dn, dd, 13 * un, ud)
        THEN [pts |-> 0, reasons |-> <<"Volume heavier on down days (distribution)">>]
        ELSE [pts |-> 4, reasons |-> <<"Volume pattern neutral">>]

BuyVolume(price_data) ==
    IF "Volume" \in price_data.columns /\ price_data.n_rows >= 30
    THEN LET recent_prices == price_data.close_tail     \* iloc[-6:]
             recent_volume == price_data.volume_tail    \* iloc[-5:]
             steps == 1 .. (Len(recent_prices) - 1)
             up    == {i \in steps : recent_prices[i + 1] - recent_prices[i] > 0}
             down  == steps \ up
             vol_up   == SumOver(recent_volume, up)
             vol_down == SumOver(recent_volume, down)
             l == BuyVolumeLadder(vol_up, Cardinality(up), vol_down, Cardinality(down))
         IN  [pts |-> l.pts,
              reasons |-> l.reasons,
              details |->
                  ("avg_vol_up" :> (IF up = {} THEN 0
                                    ELSE RoundHalfEven(vol_up, Cardinality(up))))
                  @@ ("avg_vol_down" :> (IF down = {} THEN 0
                                    ELSE RoundHalfEven(vol_down, Cardinality(down))))
                  @@ ("volume_score" :> l.pts)]
    ELSE [pts |-> 5, reasons |-> <<>>, details |-> ("volume_score" :> 5)]

---------------------------------------------------------------------------
(* 4. buy relative strength; slopes in 1/10000 *)

BuyRsLadder(rs_slope) ==
    IF rs_slope >= 30000 THEN [pts |-> 10, reasons |-> <<"Excellent RS">>]
    ELSE IF rs_slope >= 20000 THEN [pts |-> 8, reasons |-> <<"Strong RS">>]
    ELSE IF rs_slope >= 10000 THEN [pts |-> 6, reasons |-> <<"Good RS">>]
    ELSE IF rs_slope >= 5000 THEN [pts |-> 4, reasons |-> <<"Positive RS">>]
    ELSE IF rs_slope >= 0 THEN [pts |-> 2, reasons |-> <<"Weak RS">>]
    ELSE [pts |-> 0, reasons |-> <<"Negative RS">>]

\* round(x, k) of a value held with one more decimal than k. At a tie (last
\* digit 5) Python rounds the binary float, which lies on either side of the
\* decimal value; the inputs hold no such value.
RoundLastDigit(x) == RoundHalfEven(x, 10) * 10

\* mutant: a short RS series scores zero, as it does on the sell side
BuyRsShortZero(rs_series) ==
    IF rs_series.len >= 20
    THEN LET rs_slope == calculate_rs_slope(rs_series, 20)
             l == BuyRsLadder(rs_slope)
         IN  [pts |-> l.pts, reasons |-> l.reasons,
              details |-> ("rs_slope" :> RoundLastDigit(rs_slope))
                          @@ ("rs_score" :> l.pts),
              calls |-> {"calculate_rs_slope"}]
    ELSE [pts |-> 0, reasons |-> <<>>, details |-> ("rs_score" :> 0), calls |-> {}]

BuyRs(rs_series) ==
    IF rs_series.len >= 20
    THEN LET rs_slope == calculate_rs_slope(rs_series, 20)
             l == BuyRsLadder(rs_slope)
         IN  [pts |-> l.pts, reasons |-> l.reasons,
              details |-> ("rs_slope" :> RoundLastDigit(rs_slope))
                          @@ ("rs_score" :> l.pts),
              calls |-> {"calculate_rs_slope"}]
    ELSE [pts |-> 5, reasons |-> <<>>, details |-> ("rs_score" :> 5), calls |-> {}]

---------------------------------------------------------------------------
(* final score and the returned record *)

\* mutant: the upper clamp is missing
FinalScoreNoCap(score) == Max(0, score)

\* mutant: the lower clamp is missing
FinalScoreNoFloor(score) == Min(score, 100)

\* max(0, min(score, 100))
FinalScore(score) == Max(0, Min(score, 100))

SignalThreshold(final_score) == final_score >= 60

score_buy_signal(ticker, price_data, current_price, phase_info, rs_series, fundamentals) ==
    IF "phase" \notin DOMAIN phase_info THEN Raise("KeyError")
    ELSE
    LET phase == phase_info.phase IN
    IF ~BuyEligible(phase) THEN Return(InertBuy(ticker, phase), {})
    ELSE
    LET breakout_info == detect_breakout(price_data, current_price, phase_info)
        t == BuyTrend(phase, phase_info, breakout_info)
        f == BuyFundamentals(fundamentals)
        v == BuyVolume(price_data)
        r == BuyRs(rs_series)
        score == t.pts + f.pts + v.pts + r.pts
        final_score == FinalScore(score)
        details ==
            (IF breakout_info.is_breakout THEN ("breakout" :> breakout_info) ELSE EmptyDict)
            @@ ("trend_score" :> t.pts)
            @@ ("fundamental_score" :> f.pts)
            @@ v.details
            @@ r.details
    IN  Return([ticker         |-> ticker,
                is_buy         |-> SignalThreshold(final_score),
                score          |-> Round1Score(final_score),
                phase          |-> phase,
                breakout_price |-> IF breakout_info.is_breakout
                                   THEN GetOpt(breakout_info, "breakout_level")
                                   ELSE None,
                reasons        |-> t.reasons \o f.reasons \o v.reasons \o r.reasons,
                details        |-> details],
               {"detect_breakout"} \cup r.calls)

---------------------------------------------------------------------------
(* score_sell_signal *)

\* mutant: phase 2 is scored as well
SellEligibleAlso2(phase) == phase \in {2, 3, 4}

SellEligible(phase) == phase \in {3, 4}

InertSell(ticker, phase) ==
    [ticker   |-> ticker,
     is_sell  |-> FALSE,
     score    |-> 0,
     severity |-> "none",
     reason   |-> [text |-> "No sell signal", phase |-> phase],
     details  |-> EmptyDict]

\* mutant: phase 3 on its own contributes nothing
PhaseTransitionOnlyDowntrend(previous_phase, phase) ==
    IF previous_phase = Some(2) /\ phase \in {3, 4}
    THEN [pts |-> 30, reasons |-> <<"Phase transition">>]
    ELSE IF phase = 4 THEN [pts |-> 25, reasons |-> <<"In Phase 4 (Downtrend)">>]
    ELSE [pts |-> 0, reasons |-> <<>>]

PhaseTransition(previous_phase, phase) ==
    IF previous_phase = Some(2) /\ phase \in {3, 4}
    THEN [pts |-> 30, reasons |-> <<"Phase transition">>]
    ELSE IF phase = 4
    THEN [pts |-> 25, reasons |-> <<"In Phase 4 (Downtrend)">>]
    ELSE IF phase = 3
    THEN [pts |-> 15, reasons |-> <<"In Phase 3 (Distribution)">>]
    ELSE [pts |-> 0, reasons |-> <<>>]

\* mutant: the 5% and 2% thresholds are inclusive
BelowAverageInclusive(current_price, sma_50) ==
    IF current_price < sma_50
    THEN LET l == IF (sma_50 - current_price) * 100 >= 5 * sma_50
                  THEN [pts |-> 20, reasons |-> <<"Broke below 50 SMA">>]
                  ELSE IF (sma_50 - current_price) * 100 >= 2 * sma_50
                  THEN [pts |-> 15, reasons |-> <<"Below 50 SMA">>]
                  ELSE [pts |-> 10, reasons |-> <<"Just below 50 SMA">>]
         IN  [pts |-> l.pts, reasons |-> l.reasons,
              details |-> ("breakdown_level" :> RoundLastDigit(sma_50))]
    ELSE [pts |-> 0, reasons |-> <<>>, details |-> EmptyDict]

\* pct_below = (sma_50 - current_price) / sma_50 * 100, compared by cross
\* multiplication (sma_50 > current_price >= 0 here)
BelowAverage(current_price, sma_50) ==
    IF current_price < sma_50
    THEN LET l == IF (sma_50 - current_price) * 100 > 5 * sma_50
                  THEN [pts |-> 20, reasons |-> <<"Broke below 50 SMA">>]
                  ELSE IF (sma_50 - current_price) * 100 > 2 * sma_50
                  THEN [pts |-> 15, reasons |-> <<"Below 50 SMA">>]
                  ELSE [pts |-> 10, reasons |-> <<"Just below 50 SMA">>]
         IN  [pts |-> l.pts, reasons |-> l.reasons,
              details |-> ("breakdown_level" :> RoundLastDigit(sma_50))]
    ELSE [pts |-> 0, reasons |-> <<>>, details |-> EmptyDict]

SlopeDown(slope_50) ==
    IF slope_50 < 0
    THEN [pts |-> 10, reasons |-> <<"50 SMA declining">>]
    ELSE [pts |-> 0, reasons |-> <<>>]

\* min(breakdown_score, 60)
BreakdownCap(breakdown_score) == Min(breakdown_score, 60)

SellBreakdown(phase, previous_phase, current_price, phase_info) ==
    LET sma_50   == Get(phase_info, "sma_50", 0)
        slope_50 == Get(phase_info, "slope_50", 0)
        a == PhaseTransition(previous_phase, phase)
        b == BelowAverage(current_price, sma_50)
        c == SlopeDown(slope_50)
    IN  [raw     |-> a.pts + b.pts + c.pts,
         pts     |-> BreakdownCap(a.pts + b.pts + c.pts),
         reasons |-> a.reasons \o b.reasons \o c.reasons,
         details |-> b.details]

\* volume ratio in 1/1000
SellVolumeLadder(volume_ratio) ==
    IF volume_ratio >= 1500 THEN [pts |-> 30, reasons |-> <<"High volume breakdown">>]
    ELSE IF volume_ratio >= 1300 THEN [pts |-> 20, reasons |-> <<"Elevated volume">>]
    ELSE IF volume_ratio >= 1100 THEN [pts |-> 10, reasons |-> <<"Moderate volume">>]
    ELSE [pts |-> 5, reasons |-> <<"Low volume breakdown">>]

\* mutant: missing volume history scores a neutral 15
SellVolumeNeutral(price_data) ==
    IF "Volume" \in price_data.columns /\ price_data.n_rows >= 20
    THEN LET volume_ratio == calculate_volume_ratio(price_data, 20)
             l == SellVolumeLadder(volume_ratio)
         IN  [pts |-> l.pts, reasons |-> l.reasons,
              details |-> ("volume_ratio" :> RoundLastDigit(volume_ratio)),
              calls |-> {"calculate_volume_ratio"}]
    ELSE [pts |-> 15, reasons |-> <<>>, details |-> EmptyDict, calls |-> {}]

SellVolume(price_data) ==
    IF "Volume" \in price_data.columns /\ price_data.n_rows >= 20
    THEN LET volume_ratio == calculate_volume_ratio(price_data, 20)
             l == SellVolumeLadder(volume_ratio)
         IN  [pts |-> l.pts, reasons |-> l.reasons,
              details |-> ("volume_ratio" :> RoundLastDigit(volume_ratio)),
              calls |-> {"calculate_volume_ratio"}]
    ELSE [pts |-> 0, reasons |-> <<>>, details |-> EmptyDict, calls |-> {}]

\* RS slope in 1/10000
SellRsLadder(rs_slope) ==
    IF rs_slope < 0
    THEN IF rs_slope < -20000 THEN [pts |-> 10, reasons |-> <<"Sharp RS decline">>]
         ELSE IF rs_slope < -10000 THEN [pts |-> 7, reasons |-> <<"RS declining">>]
         ELSE [pts |-> 5, reasons |-> <<"Weak RS rollover">>]
    ELSE [pts |-> 0, reasons |-> <<"RS still positive">>]

SellRs(rs_series) ==
    IF rs_series.len >= 15
    THEN LET rs_slope == calculate_rs_slope(rs_series, 15)
             l == SellRsLadder(rs_slope)
         IN  [pts |-> l.pts, reasons |-> l.reasons,
              details |-> ("rs_slope" :> RoundLastDigit(rs_slope)),
              calls |-> {"calculate_rs_slope"}]
    ELSE [pts |-> 0, reasons |-> <<>>, details |-> EmptyDict, calls |-> {}]

\* mutant: the number of closes is not checked
FailedBreakoutAnyLength(price_data, current_price, sma_50) ==
    IF price_data.close_max_20 > sma_50 /\ current_price < sma_50
    THEN [pts |-> 10, reasons |-> <<"Failed breakout - closed back inside base">>]
    ELSE [pts |-> 0, reasons |-> <<>>]

\* close.iloc[-20:].max() is price_data.close_max_20
FailedBreakout(price_data, current_price, sma_50) ==
    IF price_data.n_rows >= 20
       /\ price_data.close_max_20 > sma_50 /\ current_price < sma_50
    THEN [pts |-> 10, reasons |-> <<"Failed breakout - closed back inside base">>]
    ELSE [pts |-> 0, reasons |-> <<>>]

\* mutant: the critical threshold is exclusive
SeverityStrict(final_score) ==
    IF final_score > 800 THEN "critical"
    ELSE IF final_score >= 700 THEN "high"
    ELSE IF final_score >= 600 THEN "medium"
    ELSE "low"

\* final score in tenths of a point
Severity(final_score) ==
    IF final_score >= 800 THEN "critical"
    ELSE IF final_score >= 700 THEN "high"
    ELSE IF final_score >= 600 THEN "medium"
    ELSE "low"

score_sell_signal(ticker, price_data, current_price, phase_info, rs_series, previous_phase) ==
    IF "phase" \notin DOMAIN phase_info THEN Raise("KeyError")
    ELSE
    LET phase == phase_info.phase IN
    IF ~SellEligible(phase) THEN Return(InertSell(ticker, phase), {})
    ELSE
    LET b == SellBreakdown(phase, previous_phase, current_price, phase_info)
        v == SellVolume(price_data)
        r == SellRs(rs_series)
        x == FailedBreakout(price_data, current_price, Get(phase_info, "sma_50", 0))
        score == b.pts + v.pts + r.pts + x.pts
        final_score == FinalScore(score)
        details ==
            b.details
            @@ ("breakdown_score" :> b.pts)
            @@ v.details
            @@ ("volume_score" :> v.pts)
            @@ r.details
            @@ ("rs_score" :> r.pts)
    IN  Return([ticker          |-> ticker,
                is_sell         |-> SignalThreshold(final_score),
                score           |-> Round1Score(final_score),
                severity        |-> Severity(final_score * 10),
                phase           |-> phase,
                breakdown_level |-> GetOpt(details, "breakdown_level"),
                reasons         |-> b.reasons \o v.reasons \o r.reasons \o x.reasons,
                details         |-> details],
               v.calls \cup r.calls)

---------------------------------------------------------------------------
(* benchmark.py: breadth, regime, signal gate; percentages in tenths *)

\* mutant: an entry without a phase is counted as phase 1
CountPhaseDefault1(phase_results, p) ==
    Cardinality({i \in 1 .. Len(phase_results) : Get(phase_results[i], "phase", 1) = p})

CountPhase(phase_results, p) ==
    Cardinality({i \in 1 .. Len(phase_results) : Get(phase_results[i], "phase", 0) = p})

\* round(count / total * 100, 1), in tenths of a percent
RoundPct(count, total) == IF total > 0 THEN RoundHalfEven(count * 1000, total) ELSE 0

\* the quality ladder reads the unrounded phase_2_pct = count / total * 100
BreadthQuality(count_2, total) ==
    IF total <= 0 THEN "Weak"
    ELSE IF count_2 * 100 > 50 * total THEN "Excellent"
    ELSE IF count_2 * 100 > 30 * total THEN "Good"
    ELSE IF count_2 * 100 > 15 * total THEN "Fair"
    ELSE "Weak"

EmptyBreadth ==
    [total_stocks |-> 0,
     phase_1_count |-> 0, phase_2_count |-> 0, phase_3_count |-> 0, phase_4_count |-> 0,
     phase_1_pct |-> 0, phase_2_pct |-> 0, phase_3_pct |-> 0, phase_4_pct |-> 0,
     breadth_quality |-> "unknown"]

BreadthFromCounts(total, c1, c2, c3, c4) ==
    [total_stocks |-> total,
     phase_1_count |-> c1, phase_2_count |-> c2, phase_3_count |-> c3, phase_4_count |-> c4,
     phase_1_pct |-> RoundPct(c1, total), phase_2_pct |-> RoundPct(c2, total),
     phase_3_pct |-> RoundPct(c3, total), phase_4_pct |-> RoundPct(c4, total),
     breadth_quality |-> BreadthQuality(c2, total)]

\* mutant: the empty list is not told apart
IsEmptyListNever(phase_results) == FALSE

\* "if not phase_results"
IsEmptyList(phase_results) == Len(phase_results) = 0

calculate_market_breadth(phase_results) ==
    IF IsEmptyList(phase_results) THEN Return(EmptyBreadth, {})
    ELSE Return(BreadthFromCounts(Len(phase_results),
                                  CountPhase(phase_results, 1),
                                  CountPhase(phase_results, 2),
                                  CountPhase(phase_results, 3),
                                  CountPhase(phase_results, 4)), {})

\* the phase classifier of phase_indicators: its answer for this data
classify_phase(price_data, current_price) == price_data.classified

\* "logger.warning('Empty SPY price data')" and the dictionary that follows
UnknownTrend ==
    [phase |-> 0, phase_name |-> "Unknown", trend |-> "unknown", error |-> "No data"]

\* mutant: phase 3 is labelled like phase 4
TrendLabelToppingAsBearish(phase) ==
    IF phase = 1 THEN "Consolidating"
    ELSE IF phase = 2 THEN "Bullish"
    ELSE IF phase = 3 THEN "Bearish"
    ELSE IF phase = 4 THEN "Bearish"
    ELSE "Unknown"

\* the if / elif chain on phase
TrendLabel(phase) ==
    IF phase = 1 THEN "Consolidating"
    ELSE IF phase = 2 THEN "Bullish"
    ELSE IF phase = 3 THEN "Topping"
    ELSE IF phase = 4 THEN "Bearish"
    ELSE "Unknown"

\* the dictionary returned for classified data; phase_name and confidence
\* are indexed, the averages and slopes are read with .get
SpyRecord(phase_info, current_spy_price) ==
    IF {"phase_name", "confidence"} \subseteq DOMAIN phase_info
    THEN Return([ticker |-> "SPY",
                 phase |-> phase_info.phase,
                 phase_name |-> phase_info.phase_name,
                 trend |-> TrendLabel(phase_info.phase),
                 confidence |-> phase_info.confidence,
                 sma_50 |-> GetOpt(phase_info, "sma_50"),
                 sma_200 |-> GetOpt(phase_info, "sma_200"),
                 slope_50 |-> GetOpt(phase_info, "slope_50"),
                 slope_200 |-> GetOpt(phase_info, "slope_200"),
                 current_price |-> current_spy_price,
                 reasons |-> Get(phase_info, "reasons", <<>>)],
                {"classify_phase"})
    ELSE Raise("KeyError")

analyze_spy_trend(spy_price_data, current_spy_price) ==
    IF spy_price_data.empty THEN Return(UnknownTrend, {})
    ELSE LET phase_info == classify_phase(spy_price_data, current_spy_price)
         IN  IF "phase" \in DOMAIN phase_info
             THEN SpyRecord(phase_info, current_spy_price)
             ELSE Raise("KeyError")

\* mutant: the Moderate rule is tried before the Strong rule
classify_market_regime_reordered(spy_analysis, breadth) ==
    LET spy_phase   == Get(spy_analysis, "phase", 0)
        phase_2_pct == Get(breadth, "phase_2_pct", 0)
    IN  IF spy_phase = 2 /\ phase_2_pct > 250 THEN "RISK-ON (Moderate)"
        ELSE IF spy_phase = 2 /\ phase_2_pct > 400 THEN "RISK-ON (Strong)"
        ELSE IF spy_phase = 2 \/ (spy_phase = 1 /\ phase_2_pct > 300)
        THEN "RISK-ON (Weak) / Mixed"
        ELSE IF spy_phase = 4 \/ phase_2_pct < 150 THEN "RISK-OFF"
        ELSE "TRANSITIONAL / Uncertain"

classify_market_regime(spy_analysis, breadth) ==
    LET spy_phase   == Get(spy_analysis, "phase", 0)
        phase_2_pct == Get(breadth, "phase_2_pct", 0)
    IN  IF spy_phase = 2 /\ phase_2_pct > 400 THEN "RISK-ON (Strong)"
        ELSE IF spy_phase = 2 /\ phase_2_pct > 250 THEN "RISK-ON (Moderate)"
        ELSE IF spy_phase = 2 \/ (spy_phase = 1 /\ phase_2_pct > 300)
        THEN "RISK-ON (Weak) / Mixed"
        ELSE IF spy_phase = 4 \/ phase_2_pct < 150 THEN "RISK-OFF"
        ELSE "TRANSITIONAL / Uncertain"

\* mutant: a benchmark in phase 4 is favorable as well
FavorablePhaseAlso4(spy_phase) == spy_phase \in {2, 1, 4}

\* "if spy_phase in [2, 1]"
FavorablePhase(spy_phase) == spy_phase \in {2, 1}

\* mutant: the threshold itself is not adequate
BreadthAdequateStrict(phase_2_pct, min_phase2_pct) == phase_2_pct > min_phase2_pct

\* "if phase_2_pct >= min_phase2_pct"
BreadthAdequate(phase_2_pct, min_phase2_pct) == phase_2_pct >= min_phase2_pct

GateRecord(spy_analysis, breadth, min_phase2_pct) ==
    LET spy_phase   == Get(spy_analysis, "phase", 0)
        phase_2_pct == Get(breadth, "phase_2_pct", 0)
        regime      == classify_market_regime(spy_analysis, breadth)
        should_buy  == FavorablePhase(spy_phase)
                       /\ BreadthAdequate(phase_2_pct, min_phase2_pct)
        reasons     == IF FavorablePhase(spy_phase)
                       THEN IF BreadthAdequate(phase_2_pct, min_phase2_pct)
                            THEN <<"Market breadth adequate">>
                            ELSE <<"Market breadth weak">>
                       ELSE <<"SPY in unfavorable phase">>
    IN  [should_generate_buys  |-> should_buy,
         should_generate_sells |-> TRUE,
         regime                |-> regime,
         reasons               |-> reasons,
         phase_2_pct           |-> phase_2_pct,
         spy_phase             |-> spy_phase]

\* mutant: sells are generated only when buys are
should_generate_signals_sells_gated(spy_analysis, breadth, min_phase2_pct) ==
    LET r == GateRecord(spy_analysis, breadth, min_phase2_pct)
    IN  Return([r EXCEPT !.should_generate_sells = r.should_generate_buys], {})

should_generate_signals(spy_analysis, breadth, min_phase2_pct) ==
    Return(GateRecord(spy_analysis, breadth, min_phase2_pct), {})

---------------------------------------------------------------------------
(* Inputs of the evaluations. Each value set holds a value on either side of *)
(* every threshold the code compares the input with.                         *)

Ticker == "AAA"

NoBreakout == [is_breakout |-> FALSE]

Breakouts ==
    {NoBreakout,
     [is_breakout |-> TRUE, breakout_type |-> "Base", breakout_level |-> 101000],
     [is_breakout |-> TRUE, breakout_type |-> "Base"]}

Frame(columns, n_rows, close_tail, volume_tail, close_max_20, volume_ratio, breakout) ==
    [columns |-> columns, n_rows |-> n_rows,
     close_tail |-> close_tail, volume_tail |-> volume_tail,
     close_max_20 |-> close_max_20, volume_ratio |-> volume_ratio,
     breakout |-> breakout]

CloseTails ==
    {<<10, 11, 12, 13, 14, 15>>, <<15, 14, 13, 12, 11, 10>>,
     <<10, 11, 10, 11, 10, 11>>, <<10, 10, 11, 11, 10, 12>>}

VolumeTails ==
    {<<100, 100, 100, 100, 100>>, <<200, 100, 200, 100, 200>>,
     <<100, 200, 100, 200, 100>>, <<120, 100, 120, 100, 120>>,
     <<130, 100, 130, 100, 131>>, <<130, 100, 130, 100, 130>>,
     <<100, 130, 100, 130, 100>>}

RsSeries(len, slope_20, slope_15) == [len |-> len, slope_20 |-> slope_20, slope_15 |-> slope_15]

\* frames that earn the least, the most and the neutral volume score
FrameLow(b)   == Frame({"Close", "Volume"}, 40, <<15, 14, 13, 12, 11, 10>>,
                       <<100, 100, 100, 100, 100>>, 15, 1000, b)
FrameHigh(b)  == Frame({"Close", "Volume"}, 40, <<10, 11, 12, 13, 14, 15>>,
                       <<100, 100, 100, 100, 100>>, 15, 1000, b)
FrameShort(b) == Frame({"Close", "Volume"}, 10, <<10, 11, 12, 13, 14, 15>>,
                       <<100, 100, 100, 100, 100>>, 15, 1000, b)

BuyFrames ==
    {Frame({"Close", "Volume"}, n, ct, vt, 15, 1000, NoBreakout) :
        n \in {30, 40}, ct \in CloseTails, vt \in VolumeTails}
    \cup {Frame(c, n, <<10, 11, 10, 11, 10, 11>>, <<200, 100, 200, 100, 200>>, 15, 1000, b) :
        c \in {{"Close"}, {"Close", "Volume"}}, n \in {10, 29, 30}, b \in Breakouts}

RsLow   == RsSeries(30, -5000, -5000)
RsHigh  == RsSeries(30, 35000, 35000)
RsShort == RsSeries(10, 35000, 35000)

BuyRsInputs ==
    {RsSeries(n, sl, sl) : n \in {19, 20, 30},
                           sl \in {-5004, 0, 4999, 5000, 10000, 19996, 20000, 30000, 35006}}

Trends == {"accelerating", "growing", "flat", "declining", "unknown"}

FundamentalsViews ==
    {None, Some(EmptyDict)}
    \cup {Some([revenue_trend |-> r, eps_trend |-> e, inventory_signal |-> i]) :
            r \in Trends, e \in Trends, i \in {"neutral", "caution", "negative", "unknown"}}
    \cup {Some([revenue_trend |-> r]) : r \in Trends}
    \cup {Some([eps_trend |-> "growing", inventory_signal |-> "negative"])}

FundLow  == Some([revenue_trend |-> "declining", eps_trend |-> "declining",
                  inventory_signal |-> "negative"])
FundHigh == Some([revenue_trend |-> "accelerating", eps_trend |-> "accelerating",
                  inventory_signal |-> "neutral"])

PhaseInfo(phase, sma_50, sma_200, slope_50, slope_200, d50, d200) ==
    [phase |-> phase, sma_50 |-> sma_50, sma_200 |-> sma_200,
     slope_50 |-> slope_50, slope_200 |-> slope_200,
     distance_from_50sma |-> d50, distance_from_200sma |-> d200]

Phases == 0 .. 4

Stage2Infos ==
    {PhaseInfo(2, 100000, 90000, s50, s200, d50, d200) :
        s50 \in {-10, 10, 30, 60}, s200 \in {0, 5, 20, 40},
        d50 \in {-1, 1, 3, 6, 25, 35}, d200 \in {-5, 2, 7, 12}}

Stage1Infos ==
    {PhaseInfo(1, 100000, sma_200, s50, 0, d50, 0) :
        sma_200 \in {90000, 101000, 110000}, s50 \in {-10, 10},
        d50 \in {-6, -3, 3, 6, 25, 35}}

\* phase_info that carries the phase only, and one that lacks it
BareInfos == {[phase |-> p] : p \in Phases} \cup {[phase_name |-> "Unknown"]}

IneligibleBuyInfos ==
    {PhaseInfo(p, 100000, 90000, s50, 40, d50, 12) :
        p \in {0, 3, 4}, s50 \in {-10, 60}, d50 \in {-6, 6, 35}}

InfoLow  == PhaseInfo(2, 100000, 90000, -10, 0, 35, -5)
InfoHigh == PhaseInfo(2, 100000, 90000, 60, 40, 6, 12)

BuyArgs(price_data, current_price, phase_info, rs_series, fundamentals) ==
    [ticker |-> Ticker, price_data |-> price_data, current_price |-> current_price,
     phase_info |-> phase_info, rs_series |-> rs_series, fundamentals |-> fundamentals]

BuyCorners ==
    {<<FrameLow(NoBreakout), InfoLow, RsLow, FundLow>>,
     <<FrameHigh([is_breakout |-> TRUE, breakout_type |-> "Base", breakout_level |-> 101000]),
       InfoHigh, RsHigh, FundHigh>>,
     <<FrameShort(NoBreakout), InfoHigh, RsShort, None>>}

BuyInputs ==
    \* the trend inputs varied, the other components at their corners
    {BuyArgs(x[1], 100000, pi, x[2], x[3]) :
        pi \in Stage2Infos \cup Stage1Infos \cup BareInfos \cup IneligibleBuyInfos,
        x \in {<<FrameLow(b), RsLow, FundLow>> : b \in Breakouts}
              \cup {<<FrameHigh(b), RsHigh, FundHigh>> : b \in Breakouts}
              \cup {<<FrameShort(NoBreakout), RsShort, None>>}}
    \* one component varied, the others at their corners
    \cup {BuyArgs(c[1], 100000, c[2], c[3], f) : f \in FundamentalsViews, c \in BuyCorners}
    \cup {BuyArgs(pd, 100000, c[2], c[3], c[4]) : pd \in BuyFrames, c \in BuyCorners}
    \cup {BuyArgs(c[1], 100000, c[2], rs, c[4]) : rs \in BuyRsInputs, c \in BuyCorners}

SellFrames ==
    {Frame(c, n, <<10, 11, 10, 11, 10, 11>>, <<200, 100, 200, 100, 200>>, hi, vr, NoBreakout) :
        c \in {{"Close", "Volume"}}, n \in {19, 20, 40}, hi \in {95000, 110000},
        vr \in {1004, 1100, 1299, 1300, 1500, 1606}}
    \cup {Frame({"Close"}, 40, <<10, 11, 10, 11, 10, 11>>, <<>>, hi, 1606, NoBreakout) :
        hi \in {95000, 110000}}

SellRsInputs ==
    {RsSeries(n, sl, sl) : n \in {14, 15, 30}, sl \in {-25006, -20000, -10000, -5000, 0, 5000}}

SellInfos ==
    {[phase |-> p, sma_50 |-> 100000, sma_200 |-> 90000, slope_50 |-> s50] :
        p \in {3, 4}, s50 \in {-10, 0, 10}}
    \cup {[phase |-> p, sma_50 |-> 100456, slope_50 |-> -10] : p \in {3, 4}}
    \cup {[phase |-> p, sma_200 |-> 90000, slope_50 |-> -10] : p \in {3, 4}}

IneligibleSellInfos ==
    {[phase |-> p, sma_50 |-> 100000, sma_200 |-> 90000, slope_50 |-> s50] :
        p \in {0, 1, 2}, s50 \in {-10, 10}}

PreviousPhases == {None, Some(1), Some(2), Some(3)}

SellArgs(price_data, current_price, phase_info, rs_series, previous_phase) ==
    [ticker |-> Ticker, price_data |-> price_data, current_price |-> current_price,
     phase_info |-> phase_info, rs_series |-> rs_series, previous_phase |-> previous_phase]

SellCornerFrames ==
    {Frame({"Close", "Volume"}, 40, <<10, 11, 10, 11, 10, 11>>,
           <<200, 100, 200, 100, 200>>, 110000, 1606, NoBreakout),
     Frame({"Close", "Volume"}, 10, <<10, 11, 10, 11, 10, 11>>,
           <<200, 100, 200, 100, 200>>, 95000, 1004, NoBreakout)}

SellCornerRs == {RsSeries(30, -25006, -25006), RsSeries(10, 5000, 5000)}

SellInputs ==
    \* the breakdown inputs varied, volume and RS at their corners
    {SellArgs(pd, cp, pi, rs, pp) :
        pd \in SellCornerFrames, cp \in {90000, 95000, 97000, 98000, 99000, 105000},
        pi \in SellInfos \cup BareInfos, rs \in SellCornerRs, pp \in PreviousPhases}
    \* the frame and the RS series varied, for the weakest and the strongest breakdown
    \cup {SellArgs(pd, x[1], x[2], rs, x[3]) :
        pd \in SellFrames, rs \in SellRsInputs,
        x \in {<<90000, [phase |-> 4, sma_50 |-> 100000, slope_50 |-> -10], Some(2)>>,
               <<105000, [phase |-> 3, sma_50 |-> 100000, slope_50 |-> 10], None>>}}
    \* ineligible phases
    \cup {SellArgs(pd, cp, pi, rs, pp) :
        pd \in SellCornerFrames, cp \in {90000, 105000},
        pi \in IneligibleSellInfos, rs \in SellCornerRs, pp \in PreviousPhases}

\* the longest list of phase results
MaxStocks == 3

PhaseResults ==
    {[phase |-> p, ticker |-> Ticker] : p \in 0 .. 5} \cup {[ticker |-> Ticker]}

RECURSIVE SeqsUpTo(_, _)
SeqsUpTo(S, n) ==
    IF n = 0 THEN {<<>>}
    ELSE LET shorter == SeqsUpTo(S, n - 1)
         IN  shorter \cup {Append(q, e) : q \in {r \in shorter : Len(r) = n - 1}, e \in S}

\* a universe of n stocks of which the first n2 are in phase 2
Universe(n2, n) ==
    [i \in 1 .. n |-> [phase |-> IF i <= n2 THEN 2 ELSE 1, ticker |-> Ticker]]

\* universes whose Phase-2 share lies at or just beside a threshold
LargeUniverses ==
    {Universe(3, 20), Universe(17, 113), Universe(3, 10), Universe(61, 203)}

BreadthInputs ==
    {[phase_results |-> l] : l \in SeqsUpTo(PhaseResults, MaxStocks) \cup LargeUniverses}

\* answers of the phase classifier: every phase, with and without the
\* averages and slopes, and answers lacking an indexed key
ClassifiedInfos ==
    {[phase |-> p, phase_name |-> "Phase", confidence |-> c, sma_50 |-> 448250,
      sma_200 |-> 421300, slope_50 |-> s, slope_200 |-> 12,
      reasons |-> <<"Price vs averages">>] :
        p \in 0 .. 5, c \in {40, 85}, s \in {-31, 0, 27}}
    \cup {[phase |-> p, phase_name |-> "Phase", confidence |-> c] :
        p \in 0 .. 5, c \in {40, 85}}
    \cup {[phase |-> 2, phase_name |-> "Phase"], [phase |-> 2, confidence |-> 85],
          [phase_name |-> "Phase", confidence |-> 85]}

SpyInputs ==
    {[spy_price_data |-> [empty |-> e, classified |-> pi], current_spy_price |-> cp] :
        e \in BOOLEAN, pi \in ClassifiedInfos, cp \in {0, 452130}}

SpyAnalyses ==
    {[phase |-> p, trend |-> "x"] : p \in Phases}
    \cup {[phase |-> 0, phase_name |-> "Unknown", trend |-> "unknown", error |-> "No data"],
          [trend |-> "unknown"]}

Phase2Pcts == {0, 100, 149, 150, 151, 250, 251, 300, 301, 400, 401, 450, 1000}

Breadths ==
    {[phase_2_pct |-> pct, total_stocks |-> 100] : pct \in Phase2Pcts}
    \cup {EmptyBreadth, [total_stocks |-> 0]}

RegimeInputs == {[spy_analysis |-> s, breadth |-> b] : s \in SpyAnalyses, b \in Breadths}

\* min_phase2_pct: the default 15.0 and values on either side of it
MinPhase2Pcts == {0, 100, 150, 300}

GateInputs ==
    {[spy_analysis |-> s, breadth |-> b, min_phase2_pct |-> m] :
        s \in SpyAnalyses, b \in Breadths, m \in MinPhase2Pcts}

---------------------------------------------------------------------------
(* One evaluation: the arguments are fixed at the call, the action is the  *)
(* whole function.                                                         *)

\* no concurrent evaluation, no scan run, no fetcher constructed
NoFetcher == [username |-> None]
NoBroker == [history |-> <<>>]
NoThreads == <<>>
EmptyHeap == <<>>
NoRun == [pc |-> "none"]

Init ==
    /\ pc = "call"
    /\ out = NoOutcome
    /\ threads = NoThreads /\ heap = EmptyHeap /\ run = NoRun
    /\ fetcher = NoFetcher /\ broker = NoBroker
    /\ \/ op = "score_buy_signal" /\ args \in BuyInputs
       \/ op = "score_sell_signal" /\ args \in SellInputs
       \/ op = "calculate_market_breadth" /\ args \in BreadthInputs
       \/ op = "classify_market_regime" /\ args \in RegimeInputs
       \/ op = "should_generate_signals" /\ args \in GateInputs
       \/ op = "analyze_spy_trend" /\ args \in SpyInputs

Finish(outcome) ==
    /\ pc = "call"
    /\ pc' = "done"
    /\ out' = outcome
    /\ UNCHANGED <<op, args, threads, heap, run, fetcher, broker>>

ScoreBuy ==
    /\ op = "score_buy_signal"
    /\ Finish(score_buy_signal(args.ticker, args.price_data, args.current_price,
                               args.phase_info, args.rs_series, args.fundamentals))

ScoreSell ==
    /\ op = "score_sell_signal"
    /\ Finish(score_sell_signal(args.ticker, args.price_data, args.current_price,
                                args.phase_info, args.rs_series, args.previous_phase))

CalculateBreadth ==
    /\ op = "calculate_market_breadth"
    /\ Finish(calculate_market_breadth(args.phase_results))

ClassifyRegime ==
    /\ op = "classify_market_regime"
    /\ Finish(Return(classify_market_regime(args.spy_analysis, args.breadth), {}))

ShouldGenerate ==
    /\ op = "should_generate_signals"
    /\ Finish(should_generate_signals(args.spy_analysis, args.breadth, args.min_phase2_pct))

AnalyzeSpy ==
    /\ op = "analyze_spy_trend"
    /\ Finish(analyze_spy_trend(args.spy_price_data, args.current_spy_price))

Next ==
    \/ ScoreBuy
    \/ ScoreSell
    \/ CalculateBreadth
    \/ ClassifyRegime
    \/ ShouldGenerate
    \/ AnalyzeSpy

Spec == Init /\ [][Next]_vars

Returned == pc = "done" /\ out.kind = "return"

TypeOK == pc \in {"call", "done"} /\ (pc = "call" <=> out = NoOutcome)

---------------------------------------------------------------------------
(* Concurrent evaluations. Each evaluation runs step by step, one step per *)
(* section of the function, and the steps of different evaluations         *)
(* interleave. The containers an evaluation creates (reasons = [],         *)
(* details = {}) are objects of a shared heap, reached through references. *)

TickerNames == <<"AAA", "BBB", "CCC", "DDD">>

NoRef == 0

ListObject == [kind |-> "list", items |-> <<>>]
DictObject == [kind |-> "dict", items |-> EmptyDict]

\* mutant: the list is created once and shared by the calls, as a mutable
\* default argument or a module-level list would be
NewListShared(h) ==
    IF \E ref \in DOMAIN h : h[ref].kind = "list"
    THEN CHOOSE ref \in DOMAIN h : h[ref].kind = "list"
    ELSE Len(h) + 1

\* `[]` evaluates to a new object
NewList(h) == Len(h) + 1

\* `{}` evaluates to a new object
NewDict(h) == Len(h) + 1

\* the heap once the object of reference ref exists
Alloc(h, ref, object) == IF ref > Len(h) THEN Append(h, object) ELSE h

\* mutant: the entries are inserted at the front
ListExtendFront(h, ref, entries) == [h EXCEPT ![ref].items = entries \o @]

\* reasons.append(...) for each entry in turn
ListExtend(h, ref, entries) == [h EXCEPT ![ref].items = @ \o entries]

\* details[k] = v for each key of d
DictUpdate(h, ref, d) == [h EXCEPT ![ref].items = d @@ @]

Thread(o, a) ==
    [op |-> o, args |-> a, pc |-> "call", score |-> 0, details |-> NoRef,
     reasons |-> NoRef, breakout_info |-> NoBreakout, calls |-> {}, out |-> NoOutcome]

At(t, o, p) == threads[t].op = o /\ threads[t].pc = p

\* one step of evaluation t
Step(t, th, h) ==
    /\ threads' = [threads EXCEPT ![t] = th]
    /\ heap' = h
    /\ UNCHANGED <<op, args, pc, out, run, fetcher, broker>>

\* lines 58-72: the phase lookup, the inert return, the fresh locals
BuyEnter(t) ==
    /\ At(t, "score_buy_signal", "call")
    /\ LET th == threads[t]
           a  == th.args
       IN  IF "phase" \notin DOMAIN a.phase_info
           THEN Step(t, [th EXCEPT !.pc = "done", !.out = Raise("KeyError")], heap)
           ELSE IF ~BuyEligible(a.phase_info.phase)
           THEN LET d == NewDict(heap)
                IN  Step(t, [th EXCEPT !.pc = "done",
                                       !.out = Return([InertBuy(a.ticker, a.phase_info.phase)
                                                          EXCEPT !.details = d], {})],
                         Alloc(heap, d, DictObject))
           ELSE LET d  == NewDict(heap)
                    h1 == Alloc(heap, d, DictObject)
                    r  == NewList(h1)
                IN  Step(t, [th EXCEPT !.pc = "trend", !.details = d, !.reasons = r],
                         Alloc(h1, r, ListObject))

\* lines 77-164
BuyTrendStep(t) ==
    /\ At(t, "score_buy_signal", "trend")
    /\ LET th == threads[t]
           a  == th.args
           breakout_info == detect_breakout(a.price_data, a.current_price, a.phase_info)
           s  == BuyTrend(a.phase_info.phase, a.phase_info, breakout_info)
           d  == (IF breakout_info.is_breakout THEN ("breakout" :> breakout_info)
                  ELSE EmptyDict) @@ ("trend_score" :> s.pts)
       IN  Step(t, [th EXCEPT !.pc = "fundamentals", !.score = @ + s.pts,
                              !.breakout_info = breakout_info,
                              !.calls = @ \cup {"detect_breakout"}],
                DictUpdate(ListExtend(heap, th.reasons, s.reasons), th.details, d))

\* lines 169-218
BuyFundamentalsStep(t) ==
    /\ At(t, "score_buy_signal", "fundamentals")
    /\ LET th == threads[t]
           s  == BuyFundamentals(th.args.fundamentals)
       IN  Step(t, [th EXCEPT !.pc = "volume", !.score = @ + s.pts],
                DictUpdate(ListExtend(heap, th.reasons, s.reasons), th.details,
                           "fundamental_score" :> s.pts))

\* lines 223-275
BuyVolumeStep(t) ==
    /\ At(t, "score_buy_signal", "volume")
    /\ LET th == threads[t]
           s  == BuyVolume(th.args.price_data)
       IN  Step(t, [th EXCEPT !.pc = "rs", !.score = @ + s.pts],
                DictUpdate(ListExtend(heap, th.reasons, s.reasons), th.details, s.details))

\* lines 280-312
BuyRsStep(t) ==
    /\ At(t, "score_buy_signal", "rs")
    /\ LET th == threads[t]
           s  == BuyRs(th.args.rs_series)
       IN  Step(t, [th EXCEPT !.pc = "final", !.score = @ + s.pts, !.calls = @ \cup s.calls],
                DictUpdate(ListExtend(heap, th.reasons, s.reasons), th.details, s.details))

\* lines 315-328: the record refers to the evaluation's own list and dict
BuyReturn(t) ==
    /\ At(t, "score_buy_signal", "final")
    /\ LET th == threads[t]
           final_score == FinalScore(th.score)
       IN  Step(t, [th EXCEPT !.pc = "done",
                       !.out = Return([ticker         |-> th.args.ticker,
                                       is_buy         |-> SignalThreshold(final_score),
                                       score          |-> Round1Score(final_score),
                                       phase          |-> th.args.phase_info.phase,
                                       breakout_price |->
                                           IF th.breakout_info.is_breakout
                                           THEN GetOpt(th.breakout_info, "breakout_level")
                                           ELSE None,
                                       reasons        |-> th.reasons,
                                       details        |-> th.details],
                                      th.calls)],
                heap)

\* lines 359-374
SellEnter(t) ==
    /\ At(t, "score_sell_signal", "call")
    /\ LET th == threads[t]
           a  == th.args
       IN  IF "phase" \notin DOMAIN a.phase_info
           THEN Step(t, [th EXCEPT !.pc = "done", !.out = Raise("KeyError")], heap)
           ELSE IF ~SellEligible(a.phase_info.phase)
           THEN LET d == NewDict(heap)
                IN  Step(t, [th EXCEPT !.pc = "done",
                                       !.out = Return([InertSell(a.ticker, a.phase_info.phase)
                                                          EXCEPT !.details = d], {})],
                         Alloc(heap, d, DictObject))
           ELSE LET d  == NewDict(heap)
                    h1 == Alloc(heap, d, DictObject)
                    r  == NewList(h1)
                IN  Step(t, [th EXCEPT !.pc = "breakdown", !.details = d, !.reasons = r],
                         Alloc(h1, r, ListObject))

\* lines 377-415
SellBreakdownStep(t) ==
    /\ At(t, "score_sell_signal", "breakdown")
    /\ LET th == threads[t]
           a  == th.args
           s  == SellBreakdown(a.phase_info.phase, a.previous_phase, a.current_price,
                               a.phase_info)
       IN  Step(t, [th EXCEPT !.pc = "volume", !.score = @ + s.pts],
                DictUpdate(ListExtend(heap, th.reasons, s.reasons), th.details,
                           s.details @@ ("breakdown_score" :> s.pts)))

\* lines 418-440
SellVolumeStep(t) ==
    /\ At(t, "score_sell_signal", "volume")
    /\ LET th == threads[t]
           s  == SellVolume(th.args.price_data)
       IN  Step(t, [th EXCEPT !.pc = "rs", !.score = @ + s.pts, !.calls = @ \cup s.calls],
                DictUpdate(ListExtend(heap, th.reasons, s.reasons), th.details,
                           s.details @@ ("volume_score" :> s.pts)))

\* lines 443-465
SellRsStep(t) ==
    /\ At(t, "score_sell_signal", "rs")
    /\ LET th == threads[t]
           s  == SellRs(th.args.rs_series)
       IN  Step(t, [th EXCEPT !.pc = "failed_breakout", !.score = @ + s.pts,
                              !.calls = @ \cup s.calls],
                DictUpdate(ListExtend(heap, th.reasons, s.reasons), th.details,
                           s.details @@ ("rs_score" :> s.pts)))

\* lines 468-473
SellFailedBreakoutStep(t) ==
    /\ At(t, "score_sell_signal", "failed_breakout")
    /\ LET th == threads[t]
           a  == th.args
           s  == FailedBreakout(a.price_data, a.current_price, Get(a.phase_info, "sma_50", 0))
       IN  Step(t, [th EXCEPT !.pc = "final", !.score = @ + s.pts],
                ListExtend(heap, th.reasons, s.reasons))

\* lines 476-500
SellReturn(t) ==
    /\ At(t, "score_sell_signal", "final")
    /\ LET th == threads[t]
           final_score == FinalScore(th.score)
       IN  Step(t, [th EXCEPT !.pc = "done",
                       !.out = Return([ticker          |-> th.args.ticker,
                                       is_sell         |-> SignalThreshold(final_score),
                                       score           |-> Round1Score(final_score),
                                       severity        |-> Severity(final_score * 10),
                                       phase           |-> th.args.phase_info.phase,
                                       breakdown_level |->
                                           GetOpt(heap[th.details].items, "breakdown_level"),
                                       reasons         |-> th.reasons,
                                       details         |-> th.details],
                                      th.calls)],
                heap)

\* the benchmark functions hold no container across a step: one step each
BreadthCall(t) ==
    /\ At(t, "calculate_market_breadth", "call")
    /\ Step(t, [threads[t] EXCEPT !.pc = "done",
                    !.out = calculate_market_breadth(threads[t].args.phase_results)], heap)

RegimeCall(t) ==
    /\ At(t, "classify_market_regime", "call")
    /\ Step(t, [threads[t] EXCEPT !.pc = "done",
                    !.out = Return(classify_market_regime(threads[t].args.spy_analysis,
                                                          threads[t].args.breadth), {})], heap)

GateCall(t) ==
    /\ At(t, "should_generate_signals", "call")
    /\ Step(t, [threads[t] EXCEPT !.pc = "done",
                    !.out = should_generate_signals(threads[t].args.spy_analysis,
                                                    threads[t].args.breadth,
                                                    threads[t].args.min_phase2_pct)], heap)

NextStep ==
    \/ \E t \in DOMAIN threads : BuyEnter(t)
    \/ \E t \in DOMAIN threads : BuyTrendStep(t)
    \/ \E t \in DOMAIN threads : BuyFundamentalsStep(t)
    \/ \E t \in DOMAIN threads : BuyVolumeStep(t)
    \/ \E t \in DOMAIN threads : BuyRsStep(t)
    \/ \E t \in DOMAIN threads : BuyReturn(t)
    \/ \E t \in DOMAIN threads : SellEnter(t)
    \/ \E t \in DOMAIN threads : SellBreakdownStep(t)
    \/ \E t \in DOMAIN threads : SellVolumeStep(t)
    \/ \E t \in DOMAIN threads : SellRsStep(t)
    \/ \E t \in DOMAIN threads : SellFailedBreakoutStep(t)
    \/ \E t \in DOMAIN threads : SellReturn(t)
    \/ \E t \in DOMAIN threads : BreadthCall(t)
    \/ \E t \in DOMAIN threads : RegimeCall(t)
    \/ \E t \in DOMAIN threads : GateCall(t)

\* the single-evaluation variables are not in use
Idle == op = "none" /\ args = EmptyDict /\ pc = "idle" /\ out = NoOutcome /\ run = NoRun

\* one evaluation, stepped, over the inputs of Spec
InitSteps ==
    /\ Idle
    /\ fetcher = NoFetcher /\ broker = NoBroker
    /\ heap = EmptyHeap
    /\ \E o \in {"score_buy_signal", "score_sell_signal", "calculate_market_breadth",
                 "classify_market_regime", "should_generate_signals"} :
        \E a \in (CASE o = "score_buy_signal" -> BuyInputs
                    [] o = "score_sell_signal" -> SellInputs
                    [] o = "calculate_market_breadth" -> BreadthInputs
                    [] o = "classify_market_regime" -> RegimeInputs
                    [] OTHER -> GateInputs) :
            threads = <<Thread(o, a)>>

SpecSteps == InitSteps /\ [][NextStep]_vars

\* the most evaluations running at once
MaxThreads == 2

\* a few calls of each function: scored, inert and short-history scorer
\* inputs and one input of each benchmark function
ConcurrentCalls ==
    {[op |-> "score_buy_signal", args |-> BuyArgs(c[1], 100000, c[2], c[3], c[4])] :
        c \in BuyCorners}
    \cup {[op |-> "score_buy_signal",
           args |-> BuyArgs(FrameHigh(NoBreakout), 100000, [phase |-> 3], RsHigh, FundHigh)]}
    \cup {[op |-> "score_sell_signal",
           args |-> SellArgs(pd, 90000, [phase |-> 4, sma_50 |-> 100000, slope_50 |-> -10],
                             RsSeries(30, -25006, -25006), Some(2))] :
            pd \in SellCornerFrames}
    \cup {[op |-> "score_sell_signal",
           args |-> SellArgs(FrameHigh(NoBreakout), 90000, [phase |-> 2, sma_50 |-> 100000],
                             RsSeries(30, -25006, -25006), Some(2))]}
    \cup {[op |-> "calculate_market_breadth",
           args |-> [phase_results |-> <<[phase |-> 2, ticker |-> Ticker], [ticker |-> Ticker]>>]],
          [op |-> "classify_market_regime",
           args |-> [spy_analysis |-> [phase |-> 2, trend |-> "x"],
                     breadth |-> [phase_2_pct |-> 450, total_stocks |-> 100]]],
          [op |-> "should_generate_signals",
           args |-> [spy_analysis |-> [phase |-> 1, trend |-> "x"],
                     breadth |-> [phase_2_pct |-> 150, total_stocks |-> 100],
                     min_phase2_pct |-> 150]]}

\* evaluation t works on its own ticker
ForTicker(call, t) ==
    IF "ticker" \in DOMAIN call.args
    THEN Thread(call.op, [call.args EXCEPT !.ticker = TickerNames[t]])
    ELSE Thread(call.op, call.args)

InitConcurrent ==
    /\ Idle
    /\ fetcher = NoFetcher /\ broker = NoBroker
    /\ heap = EmptyHeap
    /\ \E f \in [1 .. MaxThreads -> ConcurrentCalls] :
        threads = [t \in 1 .. MaxThreads |-> ForTicker(f[t], t)]

SpecConcurrent == InitConcurrent /\ [][NextStep]_vars

---------------------------------------------------------------------------
(* A scan run: main of run_optimized_scan.py from the return of the batch  *)
(* processing (line 355) to the report or the exit.                        *)

\* the parameters of the scorers (signal_engine.py:27-34 and 331-338)
BuyParameters ==
    {"ticker", "price_data", "current_price", "phase_info", "rs_series", "fundamentals"}
SellParameters ==
    {"ticker", "price_data", "current_price", "phase_info", "rs_series", "previous_phase"}
RequiredParameters == {"ticker", "price_data", "current_price", "phase_info", "rs_series"}

\* a call by keyword binds when every keyword is a parameter and every
\* parameter without default is given; otherwise Python raises TypeError
AcceptsKeywords(parameters, kwargs) ==
    /\ DOMAIN kwargs \subseteq parameters
    /\ RequiredParameters \subseteq DOMAIN kwargs

CallScoreBuy(kwargs) ==
    IF ~AcceptsKeywords(BuyParameters, kwargs) THEN Raise("TypeError")
    ELSE score_buy_signal(kwargs.ticker, kwargs.price_data, kwargs.current_price,
                          kwargs.phase_info, kwargs.rs_series,
                          Get(kwargs, "fundamentals", None))

CallScoreSell(kwargs) ==
    IF ~AcceptsKeywords(SellParameters, kwargs) THEN Raise("TypeError")
    ELSE score_sell_signal(kwargs.ticker, kwargs.price_data, kwargs.current_price,
                           kwargs.phase_info, kwargs.rs_series,
                           Get(kwargs, "previous_phase", None))

\* the keywords of the call at lines 371-379
BuyKeywords(analysis) ==
    [ticker        |-> analysis.ticker,
     price_data    |-> analysis.price_data,
     current_price |-> analysis.current_price,
     phase_info    |-> analysis.phase_info,
     rs_series     |-> analysis.rs_series,
     fundamentals  |-> GetOpt(analysis, "quarterly_data"),
     vcp_data      |-> GetOpt(analysis, "vcp_data")]

\* the keywords of the call at lines 396-403
SellKeywords(analysis) ==
    [ticker        |-> analysis.ticker,
     price_data    |-> analysis.price_data,
     current_price |-> analysis.current_price,
     phase_info    |-> analysis.phase_info,
     rs_series     |-> analysis.rs_series,
     fundamentals  |-> GetOpt(analysis, "quarterly_data")]

\* fundamentals_fetcher.create_snapshot, an external collaborator
create_snapshot(ticker) == [snapshot_of |-> ticker]

RECURSIVE InsertByScore(_, _)
InsertByScore(sorted, x) ==
    IF sorted = <<>> THEN <<x>>
    ELSE IF Head(sorted).score >= x.score
         THEN <<Head(sorted)>> \o InsertByScore(Tail(sorted), x)
         ELSE <<x>> \o sorted

\* sorted(signals, key=lambda x: x['score'], reverse=True): stable
RECURSIVE SortedByScore(_)
SortedByScore(signals) ==
    IF signals = <<>> THEN <<>>
    ELSE InsertByScore(SortedByScore(SubSeq(signals, 1, Len(signals) - 1)),
                       signals[Len(signals)])

\* one iteration of a scoring loop (lines 369-387, 394-411): the updated
\* run, or the run at the handler of `except Exception` when the call raises
Iterate(eligible, scorer, outcome, flag) ==
    LET analysis == run.results.analyses[run.i]
    IN  IF "phase" \notin DOMAIN analysis.phase_info
        THEN [run EXCEPT !.pc = "fatal", !.error = "KeyError"]
        ELSE IF analysis.phase_info.phase \notin eligible
        THEN [run EXCEPT !.i = @ + 1]
        ELSE IF outcome.kind = "raise"
        THEN [run EXCEPT !.pc = "fatal", !.error = outcome.exc,
                         !.invoked = Append(@, <<scorer, analysis.ticker>>)]
        ELSE LET signal == outcome.value
                 kept == IF signal[flag]
                         THEN <<signal @@ ("fundamental_snapshot" :>
                                              create_snapshot(analysis.ticker))>>
                         ELSE <<>>
             IN  [run EXCEPT !.i = @ + 1,
                             !.invoked = Append(@, <<scorer, analysis.ticker>>),
                             !.signals = @ \o kept]

RunStep(r) ==
    /\ run' = r
    /\ UNCHANGED <<op, args, pc, out, threads, heap, fetcher, broker>>

\* lines 360-367
Analyse ==
    /\ run.pc = "analysis"
    /\ LET breadth == calculate_market_breadth(run.results.phase_results).value
           signal_rec == should_generate_signals(run.spy_analysis, breadth, 150).value
       IN  RunStep([run EXCEPT !.pc = "buys", !.breadth = Some(breadth),
                               !.signal_rec = Some(signal_rec),
                               !.gate_evaluations = @ + 1,
                               !.i = 1, !.signals = <<>>])

GateOf(r, k) == (CHOOSE s \in r.signal_rec : TRUE)[k]

\* lines 368-387, one ticker
BuyIteration ==
    /\ run.pc = "buys"
    /\ GateOf(run, "should_generate_buys")
    /\ run.i <= Len(run.results.analyses)
    /\ RunStep(Iterate({1, 2}, "score_buy_signal",
                       CallScoreBuy(BuyKeywords(run.results.analyses[run.i])), "is_buy"))

\* lines 389-392
BuysRanked ==
    /\ run.pc = "buys"
    /\ ~GateOf(run, "should_generate_buys") \/ run.i > Len(run.results.analyses)
    /\ RunStep([run EXCEPT !.pc = "sells", !.buy_signals = SortedByScore(run.signals),
                           !.i = 1, !.signals = <<>>])

\* lines 393-411, one ticker
SellIteration ==
    /\ run.pc = "sells"
    /\ GateOf(run, "should_generate_sells")
    /\ run.i <= Len(run.results.analyses)
    /\ RunStep(Iterate({3, 4}, "score_sell_signal",
                       CallScoreSell(SellKeywords(run.results.analyses[run.i])), "is_sell"))

\* line 413
SellsRanked ==
    /\ run.pc = "sells"
    /\ ~GateOf(run, "should_generate_sells") \/ run.i > Len(run.results.analyses)
    /\ RunStep([run EXCEPT !.pc = "report", !.sell_signals = SortedByScore(run.signals),
                           !.signals = <<>>])

\* lines 416-436
SaveReport ==
    /\ run.pc = "report"
    /\ RunStep([run EXCEPT !.pc = "complete",
                           !.reported = Some([buy_signals |-> run.buy_signals,
                                              sell_signals |-> run.sell_signals])])

\* lines 441-443: except Exception logs the error and exits with status 1
FatalError ==
    /\ run.pc = "fatal"
    /\ RunStep([run EXCEPT !.pc = "exit", !.exit_code = Some(1)])

NextScan ==
    \/ Analyse
    \/ BuyIteration
    \/ BuysRanked
    \/ SellIteration
    \/ SellsRanked
    \/ SaveReport
    \/ FatalError

\* the longest list of analyses of a run
MaxTickers == 3

\* what the batch processing returns for a ticker: one analysis per phase,
\* strong and weak
Analyses ==
    {[price_data |-> FrameHigh([is_breakout |-> TRUE, breakout_type |-> "Base",
                                breakout_level |-> 101000]),
      current_price |-> 100000, phase_info |-> InfoHigh, rs_series |-> RsHigh,
      quarterly_data |-> [revenue_trend |-> "accelerating", eps_trend |-> "accelerating",
                          inventory_signal |-> "neutral"],
      vcp_data |-> [quality |-> 80]],
     [price_data |-> FrameLow(NoBreakout), current_price |-> 100000,
      phase_info |-> InfoLow, rs_series |-> RsLow],
     [price_data |-> FrameShort(NoBreakout), current_price |-> 100000,
      phase_info |-> PhaseInfo(1, 100000, 101000, 10, 0, 3, 0), rs_series |-> RsShort],
     [price_data |-> FrameHigh(NoBreakout), current_price |-> 105000,
      phase_info |-> PhaseInfo(3, 100000, 90000, 10, 0, 5, 16), rs_series |-> RsHigh],
     [price_data |-> Frame({"Close", "Volume"}, 40, <<10, 11, 10, 11, 10, 11>>,
                           <<200, 100, 200, 100, 200>>, 110000, 1606, NoBreakout),
      current_price |-> 90000,
      phase_info |-> PhaseInfo(4, 100000, 110000, -10, -5, -10, -18),
      rs_series |-> RsSeries(30, -25006, -25006)],
     [price_data |-> FrameLow(NoBreakout), current_price |-> 100000,
      phase_info |-> PhaseInfo(0, 100000, 90000, 0, 0, 0, 11), rs_series |-> RsLow]}

\* what analyze_spy_trend returned for the benchmark
RunSpyAnalyses == {[phase |-> p, trend |-> "x"] : p \in {1, 2, 4}}

InitScan ==
    /\ op = "none" /\ args = EmptyDict /\ pc = "idle" /\ out = NoOutcome
    /\ threads = NoThreads /\ heap = EmptyHeap
    /\ fetcher = NoFetcher /\ broker = NoBroker
    /\ \E l \in SeqsUpTo(Analyses, MaxTickers), s \in RunSpyAnalyses :
        run = [pc |-> "analysis",
               results |->
                   [analyses |-> [i \in DOMAIN l |-> l[i] @@ ("ticker" :> TickerNames[i])],
                    phase_results |-> [i \in DOMAIN l |-> l[i].phase_info]],
               spy_analysis |-> s,
               breadth |-> None, signal_rec |-> None,
               i |-> 0, signals |-> <<>>,
               buy_signals |-> <<>>, sell_signals |-> <<>>,
               invoked |-> <<>>, gate_evaluations |-> 0,
               reported |-> None, error |-> "", exit_code |-> None]

SpecScan == InitScan /\ [][NextScan]_vars

---------------------------------------------------------------------------
(* RobinhoodPositionFetcher (src/src/data/robinhood_positions.py). The     *)
(* broker library rh is the environment: each call of a method is given    *)
(* what the library and the prompts do during that call. Share quantities  *)
(* and prices are in 1/1000.                                               *)

\* __init__ with robin_stocks importable and ROBINHOOD_USERNAME set
NewFetcher(username) == [username |-> Some(username), logged_in |-> FALSE]

\* what a method call leaves behind: the object, the returned value and the
\* library functions it called
Called(self, value, calls) == [self |-> self, outcome |-> Return(value, calls)]

\* mutant: the flag is not looked at
LoggedInAlways(self) == TRUE

\* "if not self.logged_in" / "if self.logged_in"
LoggedIn(self) == self.logged_in

\* the second rh.login, with mfa_code and by_sms; an exception it raises
\* reaches the outer handler
LoginWithMfa(self, mfa_code, rh) ==
    IF mfa_code = None /\ rh.input = "raise" THEN Called(self, FALSE, {"login"})
    ELSE IF rh.login_mfa = "session"
    THEN Called([self EXCEPT !.logged_in = TRUE], TRUE, {"login"})
    ELSE Called(self, FALSE, {"login"})

\* rh.login answers with a session (truthy), with nothing (falsy), or raises
\* an exception that names an MFA challenge ("mfa") or another one ("error")
login(self, password, mfa_code, rh) ==
    IF password = None /\ rh.getpass = "raise" THEN Called(self, FALSE, {})
    ELSE IF rh.login = "session"
    THEN Called([self EXCEPT !.logged_in = TRUE], TRUE, {"login"})
    ELSE IF rh.login = "mfa" THEN LoginWithMfa(self, mfa_code, rh)
    ELSE Called(self, FALSE, {"login"})

\* "if avg_buy_price > 0 and current_price > 0", rounded to 1/100 percent
UnrealizedPlPct(avg_buy_price, current_price) ==
    IF avg_buy_price > 0 /\ current_price > 0
    THEN RoundHalfEven((current_price - avg_buy_price) * 10000, avg_buy_price)
    ELSE 0

\* the body of the loop for one position: the entry appended, if any, and
\* the library functions called. Any exception skips the position; a
\* position without a quantity counts as 0 shares, without an instrument
\* the lookup raises.
ProcessPosition(position) ==
    IF position.quantity = None THEN [entry |-> None, calls |-> {}]
    ELSE LET quantity == CHOOSE q \in position.quantity : TRUE IN
    IF quantity <= 0 THEN [entry |-> None, calls |-> {}]
    ELSE IF position.instrument = None
    THEN [entry |-> None, calls |-> {"get_instrument_by_url"}]
    ELSE LET instrument_data == CHOOSE d \in position.instrument : TRUE
             ticker == Get(instrument_data, "symbol", "UNKNOWN")
             avg_buy_price == Get(position, "average_buy_price", 0)
         IN
    IF position.latest_price = "raise"
    THEN [entry |-> None, calls |-> {"get_instrument_by_url", "get_latest_price"}]
    ELSE LET current_price ==
                 IF position.latest_price = "empty" THEN 0 ELSE position.price
         IN  [entry |-> Some([ticker |-> ticker,
                              quantity |-> RoundHalfEven(quantity, 1000),
                              average_buy_price |-> RoundLastDigit(avg_buy_price),
                              current_price |-> RoundLastDigit(current_price),
                              unrealized_pl_pct |->
                                  UnrealizedPlPct(avg_buy_price, current_price)]),
              calls |-> {"get_instrument_by_url", "get_latest_price"}]

\* "for position in positions": the entries in order and the calls made
RECURSIVE ProcessPositions(_)
ProcessPositions(positions) ==
    IF positions = <<>> THEN [result |-> <<>>, calls |-> {}]
    ELSE LET first == ProcessPosition(Head(positions))
             rest == ProcessPositions(Tail(positions))
         IN  [result |-> (IF first.entry = None THEN <<>>
                          ELSE <<CHOOSE e \in first.entry : TRUE>>) \o rest.result,
              calls |-> first.calls \cup rest.calls]

fetch_positions(self, rh) ==
    IF ~LoggedIn(self) THEN Called(self, <<>>, {})
    ELSE IF rh.raises THEN Called(self, <<>>, {"get_open_stock_positions"})
    ELSE IF rh.positions = <<>> THEN Called(self, <<>>, {"get_open_stock_positions"})
    ELSE LET done == ProcessPositions(rh.positions)
         IN  Called(self, done.result, {"get_open_stock_positions"} \cup done.calls)

\* rh.logout() raising leaves the flag set
logout(self, rh) ==
    IF LoggedIn(self)
    THEN IF rh.logout = "raise" THEN Called(self, None, {"logout"})
         ELSE Called([self EXCEPT !.logged_in = FALSE], None, {"logout"})
    ELSE Called(self, None, {})

\* the most method calls on one fetcher
MaxCalls == 3

\* the most open positions the broker reports
MaxPositions == 2

\* one position as the broker reports it, with what the two lookups do
Position(quantity, average_buy_price, instrument, latest_price, price) ==
    [quantity |-> quantity, average_buy_price |-> average_buy_price,
     instrument |-> instrument, latest_price |-> latest_price, price |-> price]

\* a holding in profit, one at a loss without a symbol, a closed position,
\* a failing instrument lookup, a failing and an empty price lookup
BrokerPositions ==
    {Position(Some(10000), 100000, Some([symbol |-> "AAA"]), "quote", 112340),
     Position(Some(2600), 50000, Some(EmptyDict), "quote", 45670),
     Position(Some(0), 100000, Some([symbol |-> "BBB"]), "quote", 100000),
     Position(Some(1000), 100000, None, "quote", 100000),
     Position(Some(1000), 100000, Some([symbol |-> "DDD"]), "raise", 0),
     Position(Some(3000), 20000, Some([symbol |-> "EEE"]), "empty", 0)}

\* what rh.get_open_stock_positions does during one fetch_positions
PositionAnswers ==
    {[raises |-> TRUE, positions |-> <<>>]}
    \cup {[raises |-> FALSE, positions |-> l] : l \in SeqsUpTo(BrokerPositions, MaxPositions)}

\* what the prompts and rh.login do during one login
LoginAnswer(getpass, login_answer, input, login_mfa) ==
    [getpass |-> getpass, login |-> login_answer, input |-> input, login_mfa |-> login_mfa]

LoginAnswers ==
    {LoginAnswer("raise", "session", "typed", "session"),
     LoginAnswer("typed", "session", "typed", "nothing"),
     LoginAnswer("typed", "nothing", "typed", "session"),
     LoginAnswer("typed", "error", "typed", "session"),
     LoginAnswer("typed", "mfa", "raise", "session"),
     LoginAnswer("typed", "mfa", "typed", "session"),
     LoginAnswer("typed", "mfa", "typed", "nothing"),
     LoginAnswer("typed", "mfa", "typed", "error")}

LogoutAnswers == {[logout |-> a] : a \in {"done", "raise"}}

\* a method call: the fetcher is replaced by what the method leaves, the
\* call is appended to the history with whether it did what it is for
Call(name, rh, called, ok) ==
    /\ Len(broker.history) < MaxCalls
    /\ fetcher' = called.self
    /\ broker' = [history |-> Append(broker.history, [call |-> name, ok |-> ok]),
                  last |-> [call |-> name, before |-> fetcher, rh |-> rh,
                            outcome |-> called.outcome]]
    /\ UNCHANGED <<op, args, pc, out, threads, heap, run>>

\* the methods are called on a constructed fetcher
Constructed == fetcher # NoFetcher

Login ==
    /\ Constructed
    /\ \E password \in {None, Some("secret")}, mfa_code \in {None, Some("123456")},
          rh \in LoginAnswers :
           LET called == login(fetcher, password, mfa_code, rh)
           IN  Call("login", rh, called, called.outcome.value)

FetchPositions ==
    /\ Constructed
    /\ \E rh \in PositionAnswers :
           Call("fetch_positions", rh, fetch_positions(fetcher, rh), TRUE)

Logout ==
    /\ Constructed
    /\ \E rh \in LogoutAnswers :
           LET called == logout(fetcher, rh)
           IN  Call("logout", rh, called, ~called.self.logged_in)

NextBroker ==
    \/ Login
    \/ FetchPositions
    \/ Logout

InitBroker ==
    /\ Idle
    /\ threads = NoThreads /\ heap = EmptyHeap
    /\ fetcher = NewFetcher("user@example.com")
    /\ broker = [history |-> <<>>, last |-> [call |-> "__init__"]]

SpecBroker == InitBroker /\ [][NextBroker]_vars

---------------------------------------------------------------------------
(* Properties *)

IsBuy  == op = "score_buy_signal"
IsSell == op = "score_sell_signal"
HasPhase == "phase" \in DOMAIN args.phase_info

\* C1: every record score_buy_signal or score_sell_signal returns, inert or
\* scored, has 0 <= score <= 100 (score is in tenths), and its is_buy / is_sell
\* flag is true exactly when score >= 60.
C1_ScoreRangeAndFlag ==
    (Returned /\ (IsBuy \/ IsSell)) =>
        LET r == out.value
            flag == IF IsBuy THEN r.is_buy ELSE r.is_sell
        IN  /\ 0 <= r.score /\ r.score <= 1000
            /\ flag <=> (r.score >= 600)

\* C1 witness: a scored buy record whose sub-scores sum below 0 and whose
\* score is clamped to 0
C1_Witness ==
    /\ Returned /\ IsBuy /\ "reasons" \in DOMAIN out.value
    /\ out.value.details.trend_score + out.value.details.fundamental_score
         + out.value.details.volume_score + out.value.details.rs_score < 0
    /\ out.value.score = 0 /\ ~out.value.is_buy

\* C2: for a phase other than 1 and 2 score_buy_signal returns, without
\* raising, is_buy = false and score = 0 with a reason naming the phase; no
\* sub-score is evaluated and the breakout detector is not called.
C2_BuyShortCircuit ==
    (pc = "done" /\ IsBuy /\ HasPhase /\ args.phase_info.phase \notin {1, 2}) =>
        /\ out.kind = "return"
        /\ out.value.is_buy = FALSE
        /\ out.value.score = 0
        /\ out.value.reason.phase = args.phase_info.phase
        /\ out.value.details = EmptyDict
        /\ "reasons" \notin DOMAIN out.value
        /\ out.calls = {}

\* C2 witness: the inert record of a phase-3 ticker whose other inputs would
\* have scored
C2_Witness ==
    /\ Returned /\ IsBuy /\ HasPhase /\ args.phase_info.phase = 3
    /\ args.price_data.breakout.is_breakout
    /\ args.fundamentals = FundHigh
    /\ out.value.score = 0

\* C3: for a phase other than 3 and 4 score_sell_signal returns is_sell = false,
\* score = 0 and severity 'none', whatever the other inputs.
C3_SellInert ==
    (pc = "done" /\ IsSell /\ HasPhase /\ args.phase_info.phase \notin {3, 4}) =>
        /\ out.kind = "return"
        /\ out.value.is_sell = FALSE
        /\ out.value.score = 0
        /\ out.value.severity = "none"

\* C3 witness: the inert record of a phase-2 ticker whose previous phase,
\* price, volume and RS would have scored
C3_Witness ==
    /\ Returned /\ IsSell /\ HasPhase /\ args.phase_info.phase = 2
    /\ args.previous_phase = Some(2)
    /\ args.current_price < Get(args.phase_info, "sma_50", 0)
    /\ args.price_data.volume_ratio >= 1500 /\ args.price_data.n_rows >= 20
    /\ args.rs_series.slope_15 < 0 /\ args.rs_series.len >= 15
    /\ out.value.severity = "none"

\* C4: for phase 3 or 4 the severity is fixed by the final score alone:
\* >= 80 critical, 70 to below 80 high, 60 to below 70 medium, below 60 low;
\* the scores 80, 79.9, 70, 69.9, 60, 59.9 give critical, high, high, medium,
\* medium, low.
C4_SeverityLadder ==
    /\ (Returned /\ IsSell /\ args.phase_info.phase \in {3, 4}) =>
        LET r == out.value IN
        /\ r.score >= 800 => r.severity = "critical"
        /\ (700 <= r.score /\ r.score < 800) => r.severity = "high"
        /\ (600 <= r.score /\ r.score < 700) => r.severity = "medium"
        /\ r.score < 600 => r.severity = "low"
    /\ <<Severity(800), Severity(799), Severity(700), Severity(699), Severity(600),
         Severity(599)>> = <<"critical", "high", "high", "medium", "medium", "low">>

\* C4 witness: a sell record whose score is exactly 80
C4_Witness ==
    /\ Returned /\ IsSell /\ HasPhase /\ args.phase_info.phase \in {3, 4}
    /\ out.value.score = 800 /\ out.value.severity = "critical"

IsGate == op = "should_generate_signals"

\* C5: should_generate_signals returns should_generate_sells = true for every
\* benchmark analysis, breadth snapshot and min_phase2_pct.
C5_SellsAlwaysOn ==
    (pc = "done" /\ IsGate) =>
        out.kind = "return" /\ out.value.should_generate_sells = TRUE

\* C5 witness: a benchmark in phase 4 with the empty breadth snapshot, buys off
C5_Witness ==
    /\ Returned /\ IsGate
    /\ Get(args.spy_analysis, "phase", 0) = 4 /\ args.breadth = EmptyBreadth
    /\ ~out.value.should_generate_buys /\ out.value.should_generate_sells

\* C6: should_generate_buys is true exactly when the benchmark phase is 1 or 2
\* and phase_2_pct >= min_phase2_pct; a missing phase or phase_2_pct counts as 0.
C6_BuysGate ==
    (Returned /\ IsGate) =>
        LET phase == IF "phase" \in DOMAIN args.spy_analysis
                     THEN args.spy_analysis.phase ELSE 0
            pct   == IF "phase_2_pct" \in DOMAIN args.breadth
                     THEN args.breadth.phase_2_pct ELSE 0
        IN  out.value.should_generate_buys
              <=> (phase \in {1, 2} /\ pct >= args.min_phase2_pct)

\* C6 witness: buys enabled at the default threshold with breadth exactly 15.0
C6_Witness ==
    /\ Returned /\ IsGate
    /\ args.min_phase2_pct = 150 /\ Get(args.breadth, "phase_2_pct", 0) = 150
    /\ out.value.should_generate_buys

IsRegime == op = "classify_market_regime"

\* C7: classify_market_regime returns the label of the first matching rule of
\* the table Strong, Moderate, Weak/Mixed, RISK-OFF, Transitional; phase 2 with
\* 45% gives 'RISK-ON (Strong)'.
C7_RegimeTable ==
    (Returned /\ IsRegime) =>
        LET phase == Get(args.spy_analysis, "phase", 0)
            pct   == Get(args.breadth, "phase_2_pct", 0)
            strong   == phase = 2 /\ pct > 400
            moderate == phase = 2 /\ pct > 250
            weak     == phase = 2 \/ (phase = 1 /\ pct > 300)
            off      == phase = 4 \/ pct < 150
            label    == out.value
        IN  /\ strong => label = "RISK-ON (Strong)"
            /\ (~strong /\ moderate) => label = "RISK-ON (Moderate)"
            /\ (~strong /\ ~moderate /\ weak) => label = "RISK-ON (Weak) / Mixed"
            /\ (~strong /\ ~moderate /\ ~weak /\ off) => label = "RISK-OFF"
            /\ (~strong /\ ~moderate /\ ~weak /\ ~off) => label = "TRANSITIONAL / Uncertain"
            /\ (phase = 2 /\ pct = 450) => label = "RISK-ON (Strong)"

\* C7 witness: phase 2 with 45% classified Strong
C7_Witness ==
    /\ Returned /\ IsRegime
    /\ Get(args.spy_analysis, "phase", 0) = 2 /\ Get(args.breadth, "phase_2_pct", 0) = 450
    /\ out.value = "RISK-ON (Strong)"

IsBreadth == op = "calculate_market_breadth"

\* C8: calculate_market_breadth of the empty list returns, without raising,
\* total 0, four counts 0, four percentages 0 and breadth_quality 'unknown'.
C8_EmptyBreadth ==
    (pc = "done" /\ IsBreadth /\ args.phase_results = <<>>) =>
        /\ out.kind = "return"
        /\ LET b == out.value IN
           /\ b.total_stocks = 0
           /\ b.phase_1_count = 0 /\ b.phase_2_count = 0
           /\ b.phase_3_count = 0 /\ b.phase_4_count = 0
           /\ b.phase_1_pct = 0 /\ b.phase_2_pct = 0
           /\ b.phase_3_pct = 0 /\ b.phase_4_pct = 0
           /\ b.breadth_quality = "unknown"

\* C8 witness: the snapshot returned for the empty list
C8_Witness ==
    /\ Returned /\ IsBreadth /\ args.phase_results = <<>>
    /\ out.value.breadth_quality = "unknown"

\* C9: every record score_buy_signal or score_sell_signal returns, the inert
\* record included, carries a phase field equal to phase_info's phase.
C9_PhaseCarried ==
    (Returned /\ (IsBuy \/ IsSell)) =>
        /\ "phase" \in DOMAIN out.value
        /\ out.value.phase = args.phase_info.phase

\* C10: the trend component recorded as details['trend_score'] lies in [0, 50].
C10_TrendWithinBounds ==
    (Returned /\ IsBuy /\ "trend_score" \in DOMAIN out.value.details) =>
        /\ 0 <= out.value.details.trend_score
        /\ out.value.details.trend_score <= 50

Eligible(phases) == HasPhase /\ args.phase_info.phase \in phases

\* the texts each step of score_buy_signal appends to reasons
BuyFundamentalsEntries ==
    {"Revenue & EPS accelerating", "Revenue or EPS accelerating", "Revenue & EPS growing",
     "Some growth present", "Growth stalled", "Revenue or EPS deteriorating",
     "Inventory: neutral", "Inventory building moderately",
     "Inventory building rapidly (demand concern)", "No fundamental data available"}
BuyVolumeEntries ==
    {"Volume heavier on up days", "Volume slightly heavier on up days",
     "Volume heavier on down days (distribution)", "Volume pattern neutral"}
BuyRsEntries ==
    {"Excellent RS", "Strong RS", "Good RS", "Positive RS", "Weak RS", "Negative RS"}

\* the texts each step of score_sell_signal appends to reasons
SellTransitionEntries == {"Phase transition", "In Phase 4 (Downtrend)", "In Phase 3 (Distribution)"}
SellLevelEntries == {"Broke below 50 SMA", "Below 50 SMA", "Just below 50 SMA"}
SellSlopeEntries == {"50 SMA declining"}
SellVolumeEntries ==
    {"High volume breakdown", "Elevated volume", "Moderate volume", "Low volume breakdown"}
SellRsEntries == {"Sharp RS decline", "RS declining", "Weak RS rollover", "RS still positive"}
SellFailedBreakoutEntries == {"Failed breakout - closed back inside base"}

HasEntry(reasons, S) == \E i \in DOMAIN reasons : reasons[i] \in S

ReasonsOf(t) == heap[threads[t].reasons].items

Scoring(t) == threads[t].reasons # NoRef

\* what the function returns when it is evaluated alone, in one piece
Alone(th) ==
    LET a == th.args
    IN  CASE th.op = "score_buy_signal" ->
               score_buy_signal(a.ticker, a.price_data, a.current_price, a.phase_info,
                                a.rs_series, a.fundamentals)
          [] th.op = "score_sell_signal" ->
               score_sell_signal(a.ticker, a.price_data, a.current_price, a.phase_info,
                                 a.rs_series, a.previous_phase)
          [] th.op = "calculate_market_breadth" -> calculate_market_breadth(a.phase_results)
          [] th.op = "classify_market_regime" ->
               Return(classify_market_regime(a.spy_analysis, a.breadth), {})
          [] OTHER -> should_generate_signals(a.spy_analysis, a.breadth, a.min_phase2_pct)

IsScorer(th) == th.op \in {"score_buy_signal", "score_sell_signal"}

\* the outcome with the content of its containers in place of the references
Deref(th) ==
    IF IsScorer(th) /\ th.out.kind = "return"
    THEN [th.out EXCEPT !.value =
            IF "reasons" \in DOMAIN th.out.value
            THEN [th.out.value EXCEPT !.reasons = heap[@].items, !.details = heap[@].items]
            ELSE [th.out.value EXCEPT !.details = heap[@].items]]
    ELSE th.out

\* the containers evaluation t holds or has returned
Containers(t) ==
    LET th == threads[t]
    IN  ({th.details, th.reasons}
         \cup (IF IsScorer(th) /\ th.out.kind = "return"
               THEN {th.out.value.details}
                    \cup (IF "reasons" \in DOMAIN th.out.value
                          THEN {th.out.value.reasons} ELSE {})
               ELSE {}))
        \ {NoRef}

\* C11: the five functions share no state between calls: under any
\* interleaving of concurrent evaluations of different tickers each call
\* returns what it returns when run alone on the same inputs, the containers
\* of a call (reasons, details) are its own, and no call changes its inputs.
C11_NoSharedState ==
    /\ [](\A t \in DOMAIN threads :
            /\ threads[t].pc = "done" => Deref(threads[t]) = Alone(threads[t])
            /\ \A u \in DOMAIN threads \ {t} : Containers(t) \cap Containers(u) = {}
            /\ Scoring(t) => threads[t].reasons # threads[t].details)
    /\ [][\A t \in DOMAIN threads : threads'[t].args = threads[t].args]_vars

\* C11 witness: evaluation 2 entered first and is still at its volume step
\* with entries in its reasons, while evaluation 1, of another ticker, has
\* entered after it and returned a scored record
C11_Witness ==
    /\ At(1, "score_buy_signal", "done") /\ Scoring(1)
    /\ At(2, "score_sell_signal", "volume") /\ ReasonsOf(2) # <<>>
    /\ threads[2].details < threads[1].details
    /\ threads[1].args.ticker # threads[2].args.ticker
    /\ threads[1].out.kind = "return" /\ threads[1].out.value.score = 900

\* C12: on an eligible ticker every missing-data condition (fundamentals
\* absent; fewer than 30 price rows or no volume column for buy volume; fewer
\* than 20 RS values for buy RS; fewer than 20 price rows for sell volume;
\* fewer than 15 RS values for sell RS) yields a returned record, never an
\* exception, with the sub-score 15, 5, 5, 0, 0 respectively and an entry of
\* reasons, appended by that step, recording the condition.
C12_MissingDataRecorded ==
    /\ (pc = "done" /\ IsBuy /\ Eligible({1, 2})) =>
        /\ out.kind = "return"
        /\ LET r == out.value
               d == r.details
           IN  /\ ~Truthy(args.fundamentals) =>
                    /\ d.fundamental_score = 15
                    /\ HasEntry(r.reasons, {"No fundamental data available"})
               /\ ("Volume" \notin args.price_data.columns \/ args.price_data.n_rows < 30) =>
                    /\ d.volume_score = 5
                    /\ HasEntry(r.reasons, BuyVolumeEntries)
               /\ args.rs_series.len < 20 =>
                    /\ d.rs_score = 5
                    /\ HasEntry(r.reasons, BuyRsEntries)
    /\ (pc = "done" /\ IsSell /\ Eligible({3, 4})) =>
        /\ out.kind = "return"
        /\ LET r == out.value
               d == r.details
           IN  /\ args.price_data.n_rows < 20 =>
                    /\ d.volume_score = 0
                    /\ HasEntry(r.reasons, SellVolumeEntries)
               /\ args.rs_series.len < 15 =>
                    /\ d.rs_score = 0
                    /\ HasEntry(r.reasons, SellRsEntries)

IsPrefix(s, u) == Len(s) <= Len(u) /\ SubSeq(u, 1, Len(s)) = s

\* the step of score_buy_signal an entry of reasons comes from: stage
\* ladder 1, breakout 2, over-extension 3, fundamentals 4, volume 5, RS 6
BuyRank(e) ==
    IF e \in BuyRsEntries THEN 6
    ELSE IF e \in BuyVolumeEntries THEN 5
    ELSE IF e \in BuyFundamentalsEntries THEN 4
    ELSE IF e \in {"Over-extended above 50 SMA", "Moderately extended above 50 SMA"} THEN 3
    ELSE IF e = "Breakout" THEN 2
    ELSE 1

\* the step of score_sell_signal an entry of reasons comes from
SellRank(e) ==
    IF e \in SellTransitionEntries THEN 1
    ELSE IF e \in SellLevelEntries THEN 2
    ELSE IF e \in SellSlopeEntries THEN 3
    ELSE IF e \in SellVolumeEntries THEN 4
    ELSE IF e \in SellRsEntries THEN 5
    ELSE 6

\* C13: within one scoring call reasons is append-only and in evaluation
\* order: for buys stage ladder, breakout, over-extension, then fundamentals,
\* then volume, then RS; for sells phase transition, breakdown level, slope of
\* the 50-average, volume, RS, failed breakout. No step inserts before or
\* removes an earlier entry.
C13_ReasonsInOrder ==
    /\ [](\A t \in DOMAIN threads :
            Scoring(t) =>
                \A i, j \in DOMAIN ReasonsOf(t) :
                    i < j =>
                        IF threads[t].op = "score_buy_signal"
                        THEN BuyRank(ReasonsOf(t)[i]) <= BuyRank(ReasonsOf(t)[j])
                        ELSE SellRank(ReasonsOf(t)[i]) < SellRank(ReasonsOf(t)[j]))
    /\ [][\A t \in DOMAIN threads :
            Scoring(t) =>
                /\ threads'[t].reasons = threads[t].reasons
                /\ IsPrefix(ReasonsOf(t), heap'[threads[t].reasons].items)]_vars

\* C13 witness: a finished buy evaluation whose reasons hold entries of all
\* six kinds
C13_Witness ==
    \E t \in DOMAIN threads :
        /\ At(t, "score_buy_signal", "done") /\ Scoring(t)
        /\ {BuyRank(ReasonsOf(t)[i]) : i \in DOMAIN ReasonsOf(t)} = 1 .. 6

RunOver == run.pc \in {"complete", "exit"}

PhaseOf(analysis) == Get(analysis.phase_info, "phase", 0)

\* C14: in a scan run the regime decision is computed once, before any
\* per-ticker scoring, and gates it: score_buy_signal is invoked for a ticker
\* only if should_generate_buys is true and the ticker's phase is 1 or 2, a
\* run with should_generate_buys false emits no buy signal, and
\* score_sell_signal is invoked for every ticker of phase 3 or 4 in every run.
C14_GateBeforeScoring ==
    run.pc # "none" =>
        LET analyses == run.results.analyses
            invoked  == {run.invoked[k] : k \in DOMAIN run.invoked}
        IN  /\ run.gate_evaluations <= 1
            /\ invoked # {} => run.gate_evaluations = 1
            /\ \A i \in DOMAIN analyses :
                <<"score_buy_signal", analyses[i].ticker>> \in invoked =>
                    /\ GateOf(run, "should_generate_buys")
                    /\ PhaseOf(analyses[i]) \in {1, 2}
            /\ (run.signal_rec # None /\ ~GateOf(run, "should_generate_buys")) =>
                    run.buy_signals = <<>> /\ (run.pc = "buys" => run.signals = <<>>)
            /\ RunOver =>
                \A i \in DOMAIN analyses :
                    PhaseOf(analyses[i]) \in {3, 4} =>
                        <<"score_sell_signal", analyses[i].ticker>> \in invoked

Ranked(signals, flag) ==
    /\ \A i, j \in DOMAIN signals : i < j => signals[i].score >= signals[j].score
    /\ \A i \in DOMAIN signals : signals[i][flag] /\ signals[i].score >= 600

C16_RunReachesReport ==
    /\ run.pc \notin {"fatal", "exit"}
    /\ (ENABLED BuyIteration /\ PhaseOf(run.results.analyses[run.i]) \in {1, 2}) =>
        AcceptsKeywords(BuyParameters, BuyKeywords(run.results.analyses[run.i]))
    /\ (ENABLED SellIteration /\ PhaseOf(run.results.analyses[run.i]) \in {3, 4}) =>
        AcceptsKeywords(SellParameters, SellKeywords(run.results.analyses[run.i]))

\* C17: for an eligible buy input the score is the sum of the four sub-scores
\* recorded in details, clamped to [0, 100]. With no breakout, absent
\* fundamentals, fewer than 30 price rows and fewer than 20 RS values it is
\* trend + 15 + 5 + 5, below 60, and is_buy is false; phase 2 with distances
\* 6 and 12 and slopes 0.06 and 0.04 gives trend 30 and score 55.
C17_BuyComposite ==
    (Returned /\ IsBuy /\ Eligible({1, 2})) =>
        LET r == out.value
            d == r.details
            pi == args.phase_info
            sum == d.trend_score + d.fundamental_score + d.volume_score + d.rs_score
            nodata == /\ ~args.price_data.breakout.is_breakout
                      /\ ~Truthy(args.fundamentals)
                      /\ args.price_data.n_rows < 30
                      /\ args.rs_series.len < 20
            example == /\ pi.phase = 2
                       /\ Get(pi, "distance_from_50sma", 0) = 6
                       /\ Get(pi, "distance_from_200sma", 0) = 12
                       /\ Get(pi, "slope_50", 0) = 60
                       /\ Get(pi, "slope_200", 0) = 40
        IN  /\ r.score = 10 * Max(0, Min(100, sum))
            /\ nodata => /\ r.score = 10 * (d.trend_score + 15 + 5 + 5)
                         /\ r.score < 600
                         /\ ~r.is_buy
            /\ (nodata /\ example) => d.trend_score = 30 /\ r.score = 550

\* C17 witness: the example input scored 55 and not flagged
C17_Witness ==
    /\ Returned /\ IsBuy /\ args.phase_info = InfoHigh
    /\ ~args.price_data.breakout.is_breakout /\ args.fundamentals = None
    /\ args.price_data.n_rows < 30 /\ args.rs_series.len < 20
    /\ out.value.details.trend_score = 30
    /\ out.value.score = 550 /\ ~out.value.is_buy

\* C18: for an eligible sell input the score is min(100, breakdown_score +
\* volume_score + rs_score + 10 if the failed-breakout condition holds).
\* Phase 4 after phase 2, price more than 5% below the 50-average, slope_50
\* negative, volume ratio >= 1.5 and RS slope < -2.0 gives breakdown 60,
\* volume 30, rs 10, score 100, severity critical and is_sell, with or without
\* the failed-breakout bonus.
C18_SellComposite ==
    (Returned /\ IsSell /\ Eligible({3, 4})) =>
        LET r == out.value
            d == r.details
            pi == args.phase_info
            pd == args.price_data
            sma_50 == Get(pi, "sma_50", 0)
            failed == /\ pd.n_rows >= 20
                      /\ pd.close_max_20 > sma_50
                      /\ args.current_price < sma_50
            bonus == IF failed THEN 10 ELSE 0
            example == /\ pi.phase = 4 /\ args.previous_phase = Some(2)
                       /\ 100 * (sma_50 - args.current_price) > 5 * sma_50
                       /\ Get(pi, "slope_50", 0) < 0
                       /\ "Volume" \in pd.columns /\ pd.n_rows >= 20
                       /\ pd.volume_ratio >= 1500
                       /\ args.rs_series.len >= 15 /\ args.rs_series.slope_15 < -20000
        IN  /\ r.score = 10 * Min(100, d.breakdown_score + d.volume_score + d.rs_score + bonus)
            /\ example => /\ d.breakdown_score = 60 /\ d.volume_score = 30 /\ d.rs_score = 10
                          /\ r.score = 1000 /\ r.severity = "critical" /\ r.is_sell

\* C18 witness: the example input with the failed-breakout bonus, raw 110
\* recorded as 100
C18_Witness ==
    /\ Returned /\ IsSell /\ Eligible({4}) /\ args.previous_phase = Some(2)
    /\ args.current_price = 90000 /\ Get(args.phase_info, "sma_50", 0) = 100000
    /\ args.price_data.n_rows >= 20 /\ args.price_data.close_max_20 > 100000
    /\ out.value.details.breakdown_score = 60 /\ out.value.details.volume_score = 30
    /\ out.value.details.rs_score = 10
    /\ out.value.score = 1000 /\ out.value.severity = "critical"

\* C19: the buy fundamental score is 15, with a reason recorded, when
\* fundamentals is None or an empty mapping; otherwise it is growth +
\* inventory + 5, growth the first match of both accelerating 15, either
\* accelerating 12, both growing 10, either growing 7, both flat 3, otherwise
\* 0, and inventory 10 for neutral, unknown or missing, 5 for caution, 0 for
\* negative. It always lies in [0, 30].
C19_FundamentalScore ==
    (Returned /\ IsBuy /\ Eligible({1, 2})) =>
        LET f == args.fundamentals
            fs == out.value.details.fundamental_score
            absent == f = None \/ f = Some(EmptyDict)
        IN  /\ 0 <= fs /\ fs <= 30
            /\ absent => /\ fs = 15
                         /\ HasEntry(out.value.reasons, {"No fundamental data available"})
            /\ ~absent =>
                LET m == CHOOSE x \in f : TRUE
                    rev == IF "revenue_trend" \in DOMAIN m THEN m.revenue_trend ELSE "missing"
                    eps == IF "eps_trend" \in DOMAIN m THEN m.eps_trend ELSE "missing"
                    growth ==
                        IF rev = "accelerating" /\ eps = "accelerating" THEN 15
                        ELSE IF rev = "accelerating" \/ eps = "accelerating" THEN 12
                        ELSE IF rev = "growing" /\ eps = "growing" THEN 10
                        ELSE IF rev = "growing" \/ eps = "growing" THEN 7
                        ELSE IF rev = "flat" /\ eps = "flat" THEN 3
                        ELSE 0
                    inventory ==
                        IF "inventory_signal" \notin DOMAIN m THEN 10
                        ELSE IF m.inventory_signal \in {"neutral", "unknown"} THEN 10
                        ELSE IF m.inventory_signal = "caution" THEN 5
                        ELSE 0
                IN  fs = growth + inventory + 5

\* C19 witness: revenue accelerating, EPS growing and an 'unknown' inventory
\* signal score 12 + 10 + 5
C19_Witness ==
    /\ Returned /\ IsBuy /\ Eligible({1, 2})
    /\ args.fundamentals = Some([revenue_trend |-> "accelerating", eps_trend |-> "growing",
                                 inventory_signal |-> "unknown"])
    /\ out.value.details.fundamental_score = 27

\* C20: the buy volume score is 5 with fewer than 30 price rows or no volume
\* column. Otherwise each of the last 5 close transitions is up (close rose)
\* or down (fell or unchanged), the volume of each class is averaged (0 when
\* the class is empty), and the score is the first match of up > 1.3 x down
\* 10, up > down 7, down > 1.3 x up 0, else 4. It is always in {0, 4, 5, 7, 10}.
C20_BuyVolumeScore ==
    (Returned /\ IsBuy /\ Eligible({1, 2})) =>
        LET pd == args.price_data
            vs == out.value.details.volume_score
            ups   == {i \in 1 .. 5 : pd.close_tail[i + 1] > pd.close_tail[i]}
            downs == {i \in 1 .. 5 : pd.close_tail[i + 1] <= pd.close_tail[i]}
            \* the averages as fractions un/ud and dn/dd
            un == SumOver(pd.volume_tail, ups)
            ud == IF ups = {} THEN 1 ELSE Cardinality(ups)
            dn == SumOver(pd.volume_tail, downs)
            dd == IF downs = {} THEN 1 ELSE Cardinality(downs)
        IN  /\ vs \in {0, 4, 5, 7, 10}
            /\ (pd.n_rows < 30 \/ "Volume" \notin pd.columns) => vs = 5
            /\ (pd.n_rows >= 30 /\ "Volume" \in pd.columns) =>
                vs = IF 10 * un * dd > 13 * dn * ud THEN 10
                     ELSE IF un * dd > dn * ud THEN 7
                     ELSE IF 10 * dn * ud > 13 * un * dd THEN 0
                     ELSE 4

\* C20 witness: up days average exactly 1.3 times the down days, which earns
\* 7 and not 10
C20_Witness ==
    /\ Returned /\ IsBuy /\ Eligible({1, 2})
    /\ args.price_data.n_rows >= 30 /\ "Volume" \in args.price_data.columns
    /\ args.price_data.close_tail = <<10, 11, 10, 11, 10, 11>>
    /\ args.price_data.volume_tail = <<130, 100, 130, 100, 130>>
    /\ out.value.details.volume_score = 7

\* C21: the sell breakdown score is the sum of (a) 30 when previous_phase is
\* 2, otherwise 25 for phase 4 and 15 for phase 3; (b) when current_price is
\* below the 50-average 20 if more than 5% below, 15 if more than 2% below,
\* else 10, with breakdown_level recording the 50-average (to the cent),
\* otherwise 0 with breakdown_level null; (c) 10 when slope_50 is negative.
\* The sum capped at 60 is what details['breakdown_score'] records.
C21_BreakdownScore ==
    (Returned /\ IsSell /\ Eligible({3, 4})) =>
        LET r == out.value
            pi == args.phase_info
            price == args.current_price
            sma_50 == IF "sma_50" \in DOMAIN pi THEN pi.sma_50 ELSE 0
            slope_50 == IF "slope_50" \in DOMAIN pi THEN pi.slope_50 ELSE 0
            below == price < sma_50
            a == IF args.previous_phase = Some(2) THEN 30
                 ELSE IF pi.phase = 4 THEN 25 ELSE 15
            b == IF ~below THEN 0
                 ELSE IF 100 * (sma_50 - price) > 5 * sma_50 THEN 20
                 ELSE IF 100 * (sma_50 - price) > 2 * sma_50 THEN 15
                 ELSE 10
            c == IF slope_50 < 0 THEN 10 ELSE 0
            sum == a + b + c
        IN  /\ r.details.breakdown_score = (IF sum > 60 THEN 60 ELSE sum)
            /\ below => /\ r.breakdown_level # None
                        /\ \A level \in r.breakdown_level :
                            /\ level - sma_50 <= 5 /\ sma_50 - level <= 5
                            /\ level % 10 = 0
            /\ ~below => r.breakdown_level = None

\* C21 witness: phase 3 with no transition, the price exactly 5% below the
\* 50-average and a flat slope scores 15 + 15
C21_Witness ==
    /\ Returned /\ IsSell /\ Eligible({3}) /\ args.previous_phase = None
    /\ args.current_price = 95000 /\ Get(args.phase_info, "sma_50", 0) = 100000
    /\ Get(args.phase_info, "slope_50", 0) >= 0
    /\ out.value.details.breakdown_score = 30
    /\ out.value.breakdown_level = Some(100000)

\* C22: the sell volume confirmation is exactly 0 with fewer than 20 price
\* rows or no volume column; with at least 20 rows it is the first match of
\* volume ratio >= 1.5 gives 30, >= 1.3 gives 20, >= 1.1 gives 10, else 5.
\* details['volume_score'] is recorded in both cases.
C22_SellVolumeScore ==
    (Returned /\ IsSell /\ Eligible({3, 4})) =>
        LET d == out.value.details
            pd == args.price_data
            ratio == pd.volume_ratio
        IN  /\ "volume_score" \in DOMAIN d
            /\ (pd.n_rows < 20 \/ "Volume" \notin pd.columns) => d.volume_score = 0
            /\ (pd.n_rows >= 20 /\ "Volume" \in pd.columns) =>
                d.volume_score = IF ratio >= 1500 THEN 30
                                 ELSE IF ratio >= 1300 THEN 20
                                 ELSE IF ratio >= 1100 THEN 10
                                 ELSE 5

\* C22 witness: 19 rows with a volume column and a ratio of 1.6 contribute 0
C22_Witness ==
    /\ Returned /\ IsSell /\ Eligible({3, 4})
    /\ args.price_data.n_rows = 19 /\ "Volume" \in args.price_data.columns
    /\ args.price_data.volume_ratio >= 1500
    /\ out.value.details.volume_score = 0

\* C23: the failed-breakout bonus of 10 is added to the composite, and its
\* reason appended, exactly when there are at least 20 closes, the highest of
\* the trailing 20 closes is above the 50-average and current_price is below
\* it; never with fewer than 20 closes or a missing 50-average. It is added
\* before the clamp to [0, 100].
C23_FailedBreakoutBonus ==
    (Returned /\ IsSell /\ Eligible({3, 4})) =>
        LET r == out.value
            d == r.details
            pi == args.phase_info
            pd == args.price_data
            missing == "sma_50" \notin DOMAIN pi
            sma_50 == IF missing THEN 0 ELSE pi.sma_50
            failed == /\ pd.n_rows >= 20
                      /\ pd.close_max_20 > sma_50
                      /\ args.current_price < sma_50
            noted == HasEntry(r.reasons, SellFailedBreakoutEntries)
            parts == d.breakdown_score + d.volume_score + d.rs_score
        IN  /\ noted <=> failed
            /\ (pd.n_rows < 20 \/ missing) => ~noted /\ r.score = 10 * Min(100, parts)
            /\ failed => r.score = 10 * Min(100, parts + 10)
            /\ ~failed => r.score = 10 * Min(100, parts)

\* C23 witness: the bonus lifts a composite of 55 to 65, which flags the record
C23_Witness ==
    /\ Returned /\ IsSell /\ Eligible({3, 4})
    /\ HasEntry(out.value.reasons, SellFailedBreakoutEntries)
    /\ out.value.details.breakdown_score + out.value.details.volume_score
         + out.value.details.rs_score = 55
    /\ out.value.score = 650 /\ out.value.is_sell


\* C24: for every non-empty input the breadth_quality of the snapshot is the
\* stated function of the phase_2_pct the same snapshot reports: above 50
\* Excellent, above 30 Good, above 15 Fair, otherwise Weak.
C24_QualityMatchesReportedPct ==
    (Returned /\ IsBreadth /\ Len(args.phase_results) > 0) =>
        LET r == out.value
        IN  r.breadth_quality = IF r.phase_2_pct > 500 THEN "Excellent"
                                ELSE IF r.phase_2_pct > 300 THEN "Good"
                                ELSE IF r.phase_2_pct > 150 THEN "Fair"
                                ELSE "Weak"


IsSpy == op = "analyze_spy_trend"

\* C25: analyze_spy_trend on empty data returns the unknown state (phase 0,
\* an error marker) without invoking the classifier and without raising; on
\* non-empty data it returns the classifier's phase with the trend label
\* 1 Consolidating, 2 Bullish, 3 Topping, 4 Bearish, else Unknown, and the
\* classifier's averages, slopes and confidence unmodified.
C25_SpyTrend ==
    (pc = "done" /\ IsSpy) =>
        LET data == args.spy_price_data
            pi == data.classified
            r == out.value
            passed(k) == IF k \in DOMAIN pi THEN r[k] = Some(pi[k]) ELSE r[k] = None
        IN  /\ data.empty =>
                /\ out.kind = "return" /\ out.calls = {}
                /\ r.phase = 0 /\ "error" \in DOMAIN r /\ r.trend = "unknown"
            /\ (~data.empty /\ out.kind = "return") =>
                /\ out.calls = {"classify_phase"}
                /\ r.phase = pi.phase
                /\ r.trend = CASE pi.phase = 1 -> "Consolidating"
                               [] pi.phase = 2 -> "Bullish"
                               [] pi.phase = 3 -> "Topping"
                               [] pi.phase = 4 -> "Bearish"
                               [] OTHER -> "Unknown"
                /\ r.confidence = pi.confidence
                /\ \A k \in {"sma_50", "sma_200", "slope_50", "slope_200"} : passed(k)
                /\ "error" \notin DOMAIN r

\* C25 witness: a classified phase 3 is labelled Topping and its averages,
\* slopes and confidence are in the result
C25_Witness ==
    /\ Returned /\ IsSpy /\ ~args.spy_price_data.empty
    /\ out.value.phase = 3 /\ out.value.trend = "Topping"
    /\ out.value.sma_50 = Some(448250) /\ out.value.slope_50 = Some(-31)
    /\ out.value.confidence = 85


\* C26: the raw buy trend score (stage quality + breakout bonus +
\* over-extension penalty) never exceeds 40, and 35 for phase 1, so the cap of
\* 50 never changes it; no buy record scores above 90, and none above 85 for
\* phase 1.
C26_BuyScoreCeiling ==
    (Returned /\ IsBuy /\ Eligible({1, 2})) =>
        LET r == out.value
            phase == args.phase_info.phase
            b == detect_breakout(args.price_data, args.current_price, args.phase_info)
            raw == BuyTrend(phase, args.phase_info, b).raw
        IN  /\ raw <= 40
            /\ r.details.trend_score = raw
            /\ r.details.trend_score <= 40
            /\ r.score <= 900
            /\ phase = 1 => raw <= 35 /\ r.details.trend_score <= 35 /\ r.score <= 850

\* C26 witness: a phase 2 record with every sub-score at its maximum
C26_Witness ==
    /\ Returned /\ IsBuy /\ Eligible({2})
    /\ out.value.details.trend_score = 40
    /\ out.value.score = 900

\* a phase 1 record at its ceiling
C26_WitnessPhase1 ==
    /\ Returned /\ IsBuy /\ Eligible({1})
    /\ out.value.details.trend_score = 35
    /\ out.value.score = 850


\* C27: over all records of score_sell_signal severity is a function of the
\* score alone: every record for phase 3 or 4 scores at least 15, score 0
\* occurs only on inert records, severity 'none' occurs exactly when the
\* phase is not 3 or 4, and is_sell is true exactly when severity is
\* 'medium', 'high' or 'critical'.
C27_SeverityOfScore ==
    (Returned /\ IsSell) =>
        LET r == out.value
            scored == args.phase_info.phase \in {3, 4}
        IN  /\ r.severity = IF r.score = 0 THEN "none"
                            ELSE IF r.score >= 800 THEN "critical"
                            ELSE IF r.score >= 700 THEN "high"
                            ELSE IF r.score >= 600 THEN "medium"
                            ELSE "low"
            /\ scored => r.score >= 150
            /\ r.score = 0 => ~scored /\ "reason" \in DOMAIN r
            /\ r.severity = "none" <=> ~scored
            /\ r.is_sell <=> r.severity \in {"medium", "high", "critical"}

\* C27 witness: a phase 3 record with nothing but the phase component
C27_Witness ==
    /\ Returned /\ IsSell /\ Eligible({3})
    /\ out.value.score = 150 /\ out.value.severity = "low" /\ ~out.value.is_sell

\* C28: the regime field of should_generate_signals equals
\* classify_market_regime on the same inputs, and with min_phase2_pct >= 15
\* should_generate_buys = true implies a regime other than 'RISK-OFF': a
\* RISK-ON label for benchmark phase 2, Weak risk-on or Transitional for
\* benchmark phase 1.
C28_GateMatchesRegime ==
    (Returned /\ IsGate) =>
        LET r == out.value
            spy_phase == Get(args.spy_analysis, "phase", 0)
        IN  /\ r.regime = classify_market_regime(args.spy_analysis, args.breadth)
            /\ (args.min_phase2_pct >= 150 /\ r.should_generate_buys) =>
                /\ r.regime # "RISK-OFF"
                /\ spy_phase \in {1, 2}
                /\ spy_phase = 2 =>
                    r.regime \in {"RISK-ON (Strong)", "RISK-ON (Moderate)",
                                  "RISK-ON (Weak) / Mixed"}
                /\ spy_phase = 1 =>
                    r.regime \in {"RISK-ON (Weak) / Mixed", "TRANSITIONAL / Uncertain"}

\* C28 witness: benchmark phase 1 with exactly 15% and the default minimum
\* lets buys through under the Transitional regime
C28_Witness ==
    /\ Returned /\ IsGate /\ args.min_phase2_pct = 150
    /\ Get(args.spy_analysis, "phase", 0) = 1
    /\ Get(args.breadth, "phase_2_pct", 0) = 150
    /\ out.value.should_generate_buys
    /\ out.value.regime = "TRANSITIONAL / Uncertain"

\* C29: for every non-empty list calculate_market_breadth returns
\* total_stocks equal to the list length and a sum of the four counts that is
\* at most the total, equal to it exactly when every phase is in {1,2,3,4};
\* entries with phase 0, no phase or another value count in the total only,
\* and never cause an error.
C29_BreadthCounts ==
    (pc = "done" /\ IsBreadth /\ Len(args.phase_results) > 0) =>
        LET l == args.phase_results
            r == out.value
            n == Len(l)
            in(p) == {i \in 1 .. n : "phase" \in DOMAIN l[i] /\ l[i].phase = p}
            others == {i \in 1 .. n : "phase" \notin DOMAIN l[i] \/ l[i].phase \notin 1 .. 4}
            sum == r.phase_1_count + r.phase_2_count + r.phase_3_count + r.phase_4_count
        IN  /\ out.kind = "return"
            /\ r.total_stocks = n
            /\ sum <= n
            /\ sum = n <=> others = {}
            /\ sum = n - Cardinality(others)
            /\ r.phase_1_count = Cardinality(in(1)) /\ r.phase_2_count = Cardinality(in(2))
            /\ r.phase_3_count = Cardinality(in(3)) /\ r.phase_4_count = Cardinality(in(4))
            /\ r.phase_2_pct = RoundHalfEven(1000 * Cardinality(in(2)), n)

\* C29 witness: a phase 5 entry, an entry without a phase and a phase 2 entry
\* give total 3, one counted stock and 33.3% in phase 2
C29_Witness ==
    /\ Returned /\ IsBreadth /\ Len(args.phase_results) = 3
    /\ \E i \in 1 .. 3 : "phase" \notin DOMAIN args.phase_results[i]
    /\ \E i \in 1 .. 3 : Get(args.phase_results[i], "phase", 0) = 5
    /\ out.value.total_stocks = 3
    /\ out.value.phase_2_count = 1 /\ out.value.phase_1_count = 0
    /\ out.value.phase_3_count = 0 /\ out.value.phase_4_count = 0
    /\ out.value.phase_2_pct = 333


\* the positions of a broker answer that fetch_positions turns into entries
Healthy(positions) ==
    {i \in DOMAIN positions :
        /\ positions[i].quantity # None /\ positions[i].quantity # Some(0)
        /\ positions[i].instrument # None
        /\ positions[i].latest_price # "raise"}

\* C30: after any sequence of login, fetch_positions and logout calls on one
\* fetcher, logged_in is true only if some login succeeded and no later
\* logout completed; fetch_positions queries the broker only while logged_in
\* is true and otherwise returns an empty list without contacting the broker;
\* a failed login never sets logged_in; fetch_positions never raises: a
\* broker error yields an empty list or skips that position.
C30_BrokerSession ==
    Constructed =>
        LET h == broker.history
            last == broker.last
            before == last.before
            o == last.outcome
        IN  /\ fetcher.logged_in =>
                \E i \in DOMAIN h :
                    /\ h[i].call = "login" /\ h[i].ok
                    /\ \A j \in (i + 1) .. Len(h) : ~(h[j].call = "logout" /\ h[j].ok)
            /\ last.call = "fetch_positions" =>
                /\ o.kind = "return"
                /\ o.calls # {} => before.logged_in
                /\ ~before.logged_in => o.value = <<>> /\ o.calls = {}
                /\ before.logged_in => "get_open_stock_positions" \in o.calls
                /\ last.rh.raises => o.value = <<>>
                /\ Len(o.value) = Cardinality(Healthy(last.rh.positions))
                      * (IF before.logged_in /\ ~last.rh.raises THEN 1 ELSE 0)
                /\ fetcher.logged_in = before.logged_in
            /\ (last.call = "login" /\ o.value = FALSE) =>
                fetcher.logged_in = before.logged_in
            /\ (last.call = "login" /\ o.value = TRUE) => fetcher.logged_in
            /\ last.call = "logout" =>
                (fetcher.logged_in <=> before.logged_in /\ last.rh.logout = "raise")

\* C30 witness: after a login and a logout that completed, fetch_positions
\* returns the empty list without a call to the broker, although the broker
\* has positions to report
C30_Witness ==
    /\ Constructed /\ Len(broker.history) = 3
    /\ broker.history[1] = [call |-> "login", ok |-> TRUE]
    /\ broker.history[2] = [call |-> "logout", ok |-> TRUE]
    /\ broker.last.call = "fetch_positions"
    /\ Healthy(broker.last.rh.positions) # {}
    /\ broker.last.outcome = Return(<<>>, {})
    /\ ~fetcher.logged_in

\* a fetch while logged in skips the position whose lookup fails and
\* reports the other
C30_WitnessSkips ==
    /\ Constructed /\ fetcher.logged_in
    /\ broker.last.call = "fetch_positions"
    /\ Len(broker.last.rh.positions) = 2
    /\ Cardinality(Healthy(broker.last.rh.positions)) = 1
    /\ Len(broker.last.outcome.value) = 1
    /\ broker.last.outcome.value[1].ticker = "AAA"
    /\ broker.last.outcome.value[1].unrealized_pl_pct = 1234

====
